---- MODULE Spec2Model ----
(***************************************************************************)
(* A model of docvector's ingestion-and-retrieval core: the token-budget   *)
(* result packer (utils/token_utils.py), the two crawlers                  *)
(* (ingestion/web_crawler.py, ingestion/crawl4ai_crawler.py), the          *)
(* embedding cache (embeddings/cache.py), the chunkers                     *)
(* (processing/chunkers), the reranker (search/reranker.py), the source    *)
(* service (services/source_service.py) and the search service             *)
(* (services/search_service.py).  Each component has its own variables     *)
(* and its own specification.                                              *)
(***************************************************************************)
EXTENDS Integers, Sequences, FiniteSets, TLC

VARIABLES
    \* ---- TokenLimiter.limit_results_to_tokens: one call
    p_pc,           \* "idle" | "call" | "done"
    p_results,      \* the argument `results`
    p_given,        \* the argument `results` as it was when the call was made
    p_max_tokens,   \* the argument `max_tokens`
    p_limited,      \* the returned list
    \* ---- the site being crawled (the crawlers' environment)
    site_sitemap,   \* the URLs /sitemap.xml lists ({} when there is none)
    site_robots,    \* the URLs the hosts' robots.txt files disallow
    site_links,     \* page -> the URLs its <a href> link to, once it was served
    site_seen,      \* the pages served so far
    \* ---- the crawler object (WebCrawler or Crawl4AICrawler)
    crawler,             \* "web" | "c4": the class of the instance
    concurrent_requests, \* self.concurrent_requests
    respect_robots,      \* Crawl4AICrawler.respect_robots (instance default)
    robots_cache,        \* Crawl4AICrawler._robots_cache: host -> entry
    visited_urls,        \* WebCrawler.visited_urls
    session,             \* WebCrawler.session: "none" | "open"
    \* ---- one fetch(config) call
    k_pc,           \* position of the call
    cfg,            \* max_pages, max_depth, allowed_domains, respect_robots, use_sitemap
    mode,           \* "none" | "sitemap" | "bfs": the discovery mode taken
    to_visit,       \* WebCrawler._crawl_recursive: list of <<url, depth>>
    discovered,     \* WebCrawler._crawl_recursive: set of URLs
    w_req,          \* WebCrawler._crawl_recursive: the GET in flight, <<>> if none
    queue,          \* Crawl4AICrawler._crawl_bfs: list of <<url, depth>>
    visited,        \* Crawl4AICrawler._crawl_bfs: set of URLs
    sitemap_urls,   \* what sitemap discovery returned, as a set
    urls_to_fetch,  \* the list handed to the batch fetch
    tasks,          \* the coroutines handed to asyncio.gather, in order
    sem,            \* asyncio.Semaphore: permits left
    documents,      \* the documents collected / returned
    raised,         \* an exception left the batch fetch
    calls,          \* fetch() calls made so far
    \* ---- history
    h_requested,    \* URLs a page request was issued for in this call
    h_depth,        \* URL -> depth at which the crawl discovered it (-1: not)
    h_prev,         \* the call before this one: its config and returned URLs
    h_clean,        \* no request of this call failed so far
    \* ---- EmbeddingCache and the key-value store behind it
    e_client,       \* self.client: "none" | "connected"
    e_store,        \* the store: key -> the JSON text kept under it (<<>>: none)
    e_expiry,       \* the store: key -> the time its entry expires
    e_now,          \* the clock
    e_last,         \* the last cache call: arguments, return value, raised
    e_ops,          \* cache calls made so far
    e_faulted,      \* the store failed some call so far
    h_set,          \* <<model, text>> -> the last vector set for it, and when
    \* ---- Crawl4AICrawler._normalize_url applied to a URL, and to its result
    u_pc,           \* "idle" | "input" | "once" | "twice"
    u_url,          \* the URL
    u_once,         \* _normalize_url(url)
    u_twice,        \* _normalize_url(_normalize_url(url))
    \* ---- a chunker (FixedSizeChunker or SemanticChunker) and one chunk(text) call
    c_pc,           \* "idle" | "new" | "ready" | "raised" | "done"
    c_kind,         \* "fixed" | "semantic": the class
    c_args,         \* the constructor's arguments
    c_size,         \* self.chunk_size / self.max_chunk_size
    c_overlap,      \* self.chunk_overlap
    c_text,         \* the text given to chunk()
    c_chunks,       \* the returned list of TextChunk
    \* ---- MultiStageReranker.rerank: one call
    r_pc,           \* "idle" | "call" | "done"
    r_results,      \* the argument `results`
    r_use_stored,   \* the argument `use_stored_scores`
    r_ranked,       \* the returned list of RankedResult
    \* ---- SourceService and the sources table
    db_schema,      \* how the table was built: "create_all" | "migrations"
    db_sources,     \* the committed rows of the sources table
    s_calls,        \* caller -> its create_source call: position and arguments
    s_made,         \* create_source and update_source calls begun so far
    s_last,         \* the last finished call: what it was and how it ended
    \* ---- MultiStageReranker._compute_relevance_score: one call
    v_pc,           \* "idle" | "call" | "done"
    v_query,        \* the argument `query`
    v_content,      \* the argument `content`
    v_score,        \* the returned score, in thousandths
    \* ---- WebCrawler: the session shared by concurrent calls
    x_session,      \* self.session: 0 for None, else the id of a ClientSession
    x_closed,       \* the ids of the sessions that were closed
    x_made,         \* ClientSession objects created so far
    x_calls,        \* caller -> its fetch / fetch_single call
    \* ---- SearchService and its components
    q_vectordb,     \* self.vectordb: 0 for None, else the id of a QdrantVectorDB
    q_embedder,     \* self.embedder: 0 for None, else the id of an embedder
    q_search,       \* self.vector_search: the components it was built on, or none
    q_state,        \* component id -> "none" | "made" | "ready" | "closed"
    q_ops,          \* calls made on the service so far
    q_last          \* the last search call: what it ran against

packVars == <<p_pc, p_results, p_given, p_max_tokens, p_limited>>

siteVars == <<site_sitemap, site_robots, site_links, site_seen>>

objVars == <<crawler, concurrent_requests, respect_robots, robots_cache,
             visited_urls, session>>

callVars == <<k_pc, cfg, mode, to_visit, discovered, w_req, queue, visited,
              sitemap_urls, urls_to_fetch, tasks, sem, documents, raised, calls,
              h_requested, h_depth, h_prev, h_clean>>

crawlVars == <<siteVars, objVars, callVars>>

cacheVars == <<e_client, e_store, e_expiry, e_now, e_last, e_ops, e_faulted, h_set>>

urlVars == <<u_pc, u_url, u_once, u_twice>>

chunkVars == <<c_pc, c_kind, c_args, c_size, c_overlap, c_text, c_chunks>>

rerankVars == <<r_pc, r_results, r_use_stored, r_ranked>>

sourceVars == <<db_schema, db_sources, s_calls, s_made, s_last>>

relVars == <<v_pc, v_query, v_content, v_score>>

sessVars == <<x_session, x_closed, x_made, x_calls>>

svcVars == <<q_vectordb, q_embedder, q_search, q_state, q_ops, q_last>>

vars == <<packVars, crawlVars, cacheVars, urlVars, chunkVars, rerankVars, sourceVars, relVars, sessVars, svcVars>>

\* what the operations of one component leave alone
outsidePack == <<crawlVars, cacheVars, urlVars, chunkVars, rerankVars, sourceVars, relVars, sessVars, svcVars>>
outsideCrawl == <<packVars, cacheVars, urlVars, chunkVars, rerankVars, sourceVars, relVars, sessVars, svcVars>>
outsideCache == <<packVars, crawlVars, urlVars, chunkVars, rerankVars, sourceVars, relVars, sessVars, svcVars>>
outsideUrl == <<packVars, crawlVars, cacheVars, chunkVars, rerankVars, sourceVars, relVars, sessVars, svcVars>>
outsideChunk == <<packVars, crawlVars, cacheVars, urlVars, rerankVars, sourceVars, relVars, sessVars, svcVars>>
outsideRerank == <<packVars, crawlVars, cacheVars, urlVars, chunkVars, sourceVars, relVars, sessVars, svcVars>>
outsideSource == <<packVars, crawlVars, cacheVars, urlVars, chunkVars, rerankVars, relVars, sessVars, svcVars>>
outsideRel == <<packVars, crawlVars, cacheVars, urlVars, chunkVars, rerankVars, sourceVars, sessVars, svcVars>>
outsideSess == <<packVars, crawlVars, cacheVars, urlVars, chunkVars, rerankVars, sourceVars, relVars, svcVars>>
outsideSvc == <<packVars, crawlVars, cacheVars, urlVars, chunkVars, rerankVars, sourceVars, relVars, sessVars>>

(***************************************************************************)
(* Helpers                                                                 *)
(***************************************************************************)
RECURSIVE SumSeq(_)
SumSeq(s) == IF s = <<>> THEN 0 ELSE Head(s) + SumSeq(Tail(s))

Rep(n, w) == [i \in 1..n |-> w]

(***************************************************************************)
(* TokenLimiter (utils/token_utils.py)                                     *)
(*                                                                         *)
(* A text is the sequence of its sentences, as re.split(r'(?<=[.!?])\s+')  *)
(* yields them, each sentence being its number of whitespace-separated     *)
(* words: count_tokens reads nothing else of a text.  Joining the first k  *)
(* sentences with " " and stripping is the prefix of length k.             *)
(***************************************************************************)
MaxResults == 3     \* longest generated result list
MaxBudget == 70     \* largest generated max_tokens (450 is added for scenario 7)
MinPartialTokens == 50

WordCount(text) == SumSeq(text)

\* int(words * 1.3): 1.3 is a float just above 13/10, so this is floor(13w/10)
count_tokens(text) == (13 * WordCount(text)) \div 10

\* the loop of truncate_to_tokens(preserve_sentences=True): sentences are kept
\* while the running sum of their own token counts fits; it breaks at the first
\* that does not
RECURSIVE KeepSentences(_, _, _)
KeepSentences(sentences, current_tokens, max_tokens) ==
    IF sentences = <<>> THEN <<>>
    ELSE LET sentence_tokens == count_tokens(<<Head(sentences)>>)
         IN  IF current_tokens + sentence_tokens <= max_tokens
             THEN <<Head(sentences)>> \o
                  KeepSentences(Tail(sentences), current_tokens + sentence_tokens, max_tokens)
             ELSE <<>>

truncate_to_tokens(text, max_tokens) ==
    IF count_tokens(text) <= max_tokens THEN text
    ELSE KeepSentences(text, 0, max_tokens)

IncludePartialAtLeast(remaining_tokens) == remaining_tokens >= MinPartialTokens

\* `if remaining_tokens > 50`
IncludePartial(remaining_tokens) == remaining_tokens > MinPartialTokens

RECURSIVE LimitLoop(_, _, _)
LimitLoop(results, current_tokens, max_tokens) ==
    IF results = <<>> THEN <<>>
    ELSE LET result == Head(results)
             result_tokens == count_tokens(result.content)
             remaining_tokens == max_tokens - current_tokens
         IN  IF current_tokens + result_tokens <= max_tokens
             THEN <<result>> \o
                  LimitLoop(Tail(results), current_tokens + result_tokens, max_tokens)
             ELSE IF IncludePartial(remaining_tokens)
                  THEN << [result EXCEPT
                             !.content = truncate_to_tokens(@, remaining_tokens),
                             !.truncated = TRUE] >>
                  ELSE <<>>

limit_results_to_tokens(results, max_tokens) == LimitLoop(results, 0, max_tokens)

\* a truncated result written into the input dict itself
AfterInPlace(result, truncated_result) == truncated_result

\* truncated_result = result.copy(): what the call leaves of the input dict
AfterCopy(result, truncated_result) == result

\* the argument list once the call has returned
RECURSIVE InputAfter(_, _, _)
InputAfter(results, current_tokens, max_tokens) ==
    IF results = <<>> THEN <<>>
    ELSE LET result == Head(results)
             result_tokens == count_tokens(result.content)
             remaining_tokens == max_tokens - current_tokens
         IN  IF current_tokens + result_tokens <= max_tokens
             THEN <<result>> \o
                  InputAfter(Tail(results), current_tokens + result_tokens, max_tokens)
             ELSE IF IncludePartial(remaining_tokens)
                  THEN << AfterCopy(result,
                                    [result EXCEPT
                                       !.content = truncate_to_tokens(@, remaining_tokens),
                                       !.truncated = TRUE]) >> \o Tail(results)
                  ELSE results

\* a result dict: its identity, its "content" and whether it has "truncated"
Result(i, text) == [id |-> i, content |-> text, truncated |-> FALSE]

Contents == { <<>>, <<10>>, Rep(25, 3), <<154>> }

\* scenario 7: ten candidates of 200 tokens (154 words) each, as one sentence,
\* as 22 sentences of 7 words or as 11 sentences of 14 words
Contents200 == { <<154>>, Rep(22, 7), Rep(11, 14) }

ScenarioLists == { [i \in 1..10 |-> Result(i, c)] : c \in Contents200 }

ResultLists ==
    { [i \in 1..n |-> Result(i, c[i])] : <<n, c>> \in
        UNION { {n} \X [1..n -> Contents] : n \in 0..MaxResults } }
    \cup ScenarioLists

Budgets == (0..MaxBudget) \cup {450}

PackIdle ==
    /\ p_pc = "idle"
    /\ p_results = <<>>
    /\ p_given = <<>>
    /\ p_max_tokens = 0
    /\ p_limited = <<>>

PackInit ==
    /\ p_pc = "call"
    /\ p_results \in ResultLists
    /\ p_given = p_results
    /\ p_max_tokens \in Budgets
    /\ p_limited = <<>>

\* limited = limit_results_to_tokens(results, max_tokens)
Pack ==
    /\ p_pc = "call"
    /\ p_limited' = limit_results_to_tokens(p_results, p_max_tokens)
    /\ p_results' = InputAfter(p_results, 0, p_max_tokens)
    /\ p_pc' = "done"
    /\ UNCHANGED <<p_given, p_max_tokens, outsidePack>>


(***************************************************************************)
(* The crawlers (ingestion/web_crawler.py, ingestion/crawl4ai_crawler.py)  *)
(*                                                                         *)
(* The site is a set of pages.  The start URL is page 1; every page but    *)
(* the last is on the start URL's host, the last one on a subdomain of it  *)
(* (its netloc ends with the start host, so the default allowed_domains    *)
(* admit it, and it has a robots.txt of its own).  A page's links are      *)
(* fixed the first time the page is served and stay as they are.           *)
(***************************************************************************)
NPages == 3         \* pages of the site
MaxLinks == 2       \* most links on one page
MaxPagesCfg == 3    \* max_pages ranges over 1..MaxPagesCfg
MaxDepthCfg == 2    \* max_depth ranges over 0..MaxDepthCfg
MaxConcurrent == 2  \* concurrent_requests ranges over 1..MaxConcurrent
MaxWebCalls == 2      \* fetch calls on one WebCrawler
MaxCalls == 1       \* fetch() calls on the instance

Pages == 1..NPages
StartUrl == 1
DocsHost == <<"docs", "example", "com">>
ApiHost == <<"api", "docs", "example", "com">>
Hosts == {DocsHost, ApiHost}

\* urlparse(url).netloc
netloc(url) == IF url < NPages THEN DocsHost ELSE ApiHost

\* str.endswith on host names, label by label
EndsWith(h, d) ==
    /\ Len(d) <= Len(h)
    /\ SubSeq(h, Len(h) - Len(d) + 1, Len(h)) = d

Range(s) == { s[i] : i \in 1..Len(s) }

Min(a, b) == IF a < b THEN a ELSE b

\* the orders in which list(a_set) may enumerate a set
Perms(S) ==
    { f \in [1..Cardinality(S) -> S] : \A i, j \in 1..Cardinality(S) : f[i] = f[j] => i = j }

\* s[:n] for n >= 0
Take(s, n) == SubSeq(s, 1, IF n < Len(s) THEN n ELSE Len(s))

Uncapped(urls, max_pages) == urls

\* `list(sitemap_urls)[:max_pages]`, `return urls[:max_pages]`
CapToMaxPages(urls, max_pages) == Take(urls, max_pages)

RECURSIVE Ascending(_)
Ascending(S) ==
    IF S = {} THEN <<>>
    ELSE LET m == CHOOSE x \in S : \A y \in S : x <= y
         IN  <<m>> \o Ascending(S \ {m})

LinkSets == { S \in SUBSET Pages : Cardinality(S) <= MaxLinks }

\* what the site serves as the links of a page: new pages get any link set
ServedLinks(url) == IF url \in site_seen THEN {site_links[url]} ELSE LinkSets

AllowedDomainChoices == { <<>>, <<ApiHost>> }

NoCfg == [max_pages |-> 1, max_depth |-> 0, allowed_domains |-> <<>>,
          respect_robots |-> TRUE, use_sitemap |-> TRUE]

\* one coroutine of a gather: fetch_with_semaphore / fetch_one / fetch_and_extract
NewTask(url, depth) ==
    [url |-> url, depth |-> depth, st |-> "waiting", outcome |-> "none",
     result |-> "pending", links |-> <<>>]

TasksFor(urls) == [i \in 1..Len(urls) |-> NewTask(urls[i], 0)]

\* page requests in flight: gated tasks past the semaphore, and the GET of
\* WebCrawler._crawl_recursive
InFlight ==
    Cardinality({ i \in 1..Len(tasks) : tasks[i].st = "inflight" })
    + (IF w_req = <<>> THEN 0 ELSE 1)

AcquireUngated(permits) == TRUE

\* asyncio.Semaphore.acquire returns only while a permit is left
CanAcquire(permits) == permits > 0

ResultPropagating(kind, outcome) ==
    IF outcome = "ok" THEN "doc" ELSE IF outcome = "fail" THEN "none" ELSE "exc"

\* what a gated coroutine returns: the document, or None when the result
\* reports failure (`if not result.success`) or the fetch raised
\* (`except Exception: return None`)
TaskResult(kind, outcome) == IF outcome = "ok" THEN "doc" ELSE "none"

\* the ways a page fetch can end: aiohttp raises (raise_for_status included);
\* crawl4ai raises or returns a result with success = False
Outcomes(kind) == IF kind = "web" THEN {"ok", "raise"} ELSE {"ok", "fail", "raise"}

\* [doc for doc in results if doc is not None], as <<url, depth>> records
RECURSIVE DocsOf(_)
DocsOf(ts) ==
    IF ts = <<>> THEN <<>>
    ELSE (IF Head(ts).result = "doc"
          THEN << [url |-> Head(ts).url, depth |-> Head(ts).depth] >>
          ELSE <<>>) \o DocsOf(Tail(ts))

\* the URLs of a list of returned documents
DocUrls(docs) == { docs[i].url : i \in 1..Len(docs) }

NoPrev == [made |-> FALSE, cfg |-> NoCfg, urls |-> {}, raised |-> FALSE, clean |-> TRUE]

AllDone(ts) == \A i \in 1..Len(ts) : ts[i].st = "done"
Propagated(ts) == \E i \in 1..Len(ts) : ts[i].result = "exc"

(***************************************************************************)
(* Crawl4AICrawler: robots policy                                          *)
(***************************************************************************)
\* RobotFileParser.can_fetch: the rules once robots.txt was read; a parser
\* that never read (last_checked = 0) allows nothing
ParserCanFetch(entry, url) ==
    IF entry = "loaded" THEN url \notin site_robots ELSE FALSE

\* Crawl4AICrawler._can_fetch
CanFetch(url) ==
    IF ~respect_robots THEN TRUE
    ELSE IF robots_cache[netloc(url)] = "absent" THEN TRUE
    ELSE ParserCanFetch(robots_cache[netloc(url)], url)

InAllowedDomains(url, allowed_domains) ==
    \E i \in 1..Len(allowed_domains) : EndsWith(netloc(url), allowed_domains[i])

\* WebCrawler._should_crawl (links here are http(s) URLs without fragment)
WebShouldCrawl(url, allowed_domains) ==
    allowed_domains = <<>> \/ InAllowedDomains(url, allowed_domains)

\* Crawl4AICrawler._should_crawl (links here are http(s) content pages)
C4ShouldCrawl(url, allowed_domains, respect) ==
    /\ allowed_domains = <<>> \/ InAllowedDomains(url, allowed_domains)
    /\ ~(respect /\ ~CanFetch(url))

(***************************************************************************)
(* WebCrawler                                                              *)
(***************************************************************************)
\* the `for link in soup.find_all("a", href=True)` loop of _crawl_recursive
RECURSIVE WebAddLinks(_, _, _, _, _, _)
WebAddLinks(links, depth, disc, tv, max_pages, allowed_domains) ==
    IF links = <<>> THEN [discovered |-> disc, to_visit |-> tv]
    ELSE LET absolute_url == Head(links)
         IN  IF ~WebShouldCrawl(absolute_url, allowed_domains)
                \/ absolute_url \in disc
             THEN WebAddLinks(Tail(links), depth, disc, tv, max_pages, allowed_domains)
             ELSE LET disc2 == disc \cup {absolute_url}
                      tv2 == Append(tv, <<absolute_url, depth + 1>>)
                  IN  IF Cardinality(disc2) >= max_pages
                      THEN [discovered |-> disc2, to_visit |-> tv2]
                      ELSE WebAddLinks(Tail(links), depth, disc2, tv2,
                                       max_pages, allowed_domains)

\* `while to_visit and len(discovered) < max_pages`
WebLoopCond == to_visit # <<>> /\ Cardinality(discovered) < cfg.max_pages

\* fetch(config) up to the await of _fetch_sitemap
WebFetchBegin ==
    /\ \E mp \in 1..MaxPagesCfg, md \in 0..MaxDepthCfg, ad \in AllowedDomainChoices :
          cfg' = [max_pages |-> mp, max_depth |-> md, allowed_domains |-> ad,
                  respect_robots |-> TRUE, use_sitemap |-> TRUE]
    /\ session' = "open"
    /\ k_pc' = "sitemap"
    /\ calls' = calls + 1
    /\ mode' = "none"
    /\ sitemap_urls' = {}
    /\ documents' = <<>>
    /\ raised' = FALSE
    /\ h_requested' = {}
    /\ h_depth' = [p \in Pages |-> -1]
    /\ h_prev' = [made |-> calls > 0, cfg |-> cfg, urls |-> DocUrls(documents),
                  raised |-> raised, clean |-> h_clean]
    /\ h_clean' = TRUE
    /\ to_visit' = <<>>
    /\ discovered' = {}
    /\ urls_to_fetch' = <<>>
    /\ tasks' = <<>>
    /\ UNCHANGED outsideCrawl
    /\ UNCHANGED <<siteVars, crawler, concurrent_requests, respect_robots,
                   robots_cache, visited_urls, w_req, queue, visited, sem>>

\* the first fetch(config) on the instance
WebFetch == crawler = "web" /\ k_pc = "idle" /\ calls < MaxCalls /\ WebFetchBegin

\* a later fetch(config) on the same instance, after the one before returned
WebFetchAgain == crawler = "web" /\ k_pc = "done" /\ calls < MaxWebCalls /\ WebFetchBegin

\* _fetch_sitemap returns; fetch takes the sitemap's URLs or starts
\* _crawl_recursive
WebFetchSitemap ==
    /\ crawler = "web" /\ k_pc = "sitemap"
    /\ \E found \in {site_sitemap, {}} :   \* {}: non-200 or an exception
          /\ sitemap_urls' = found
          /\ IF found # {}
             THEN \E order \in Perms(found) :
                     LET urls == CapToMaxPages(order, cfg.max_pages)
                     IN  /\ urls_to_fetch' = urls
                         /\ tasks' = TasksFor(urls)
                         /\ sem' = concurrent_requests
                         /\ mode' = "sitemap"
                         /\ k_pc' = "gather"
                         /\ UNCHANGED <<to_visit, discovered, h_depth>>
             ELSE /\ to_visit' = << <<StartUrl, 0>> >>
                  /\ discovered' = {StartUrl}
                  /\ h_depth' = [h_depth EXCEPT ![StartUrl] = 0]
                  /\ mode' = "bfs"
                  /\ k_pc' = "crawl"
                  /\ UNCHANGED <<urls_to_fetch, tasks, sem>>
    /\ UNCHANGED outsideCrawl
    /\ UNCHANGED <<siteVars, objVars, cfg, w_req, queue, visited, documents,
                   raised, calls, h_requested, h_prev, h_clean>>

\* one turn of the while loop up to `async with self.session.get(url)`
WebCrawlPop ==
    /\ crawler = "web" /\ k_pc = "crawl"
    /\ WebLoopCond
    /\ LET url == Head(to_visit)[1]
           depth == Head(to_visit)[2]
       IN  /\ to_visit' = Tail(to_visit)
           /\ IF url \in visited_urls \/ depth > cfg.max_depth
              THEN UNCHANGED <<visited_urls, w_req, k_pc, h_requested>>
              ELSE /\ visited_urls' = visited_urls \cup {url}
                   /\ w_req' = <<url, depth>>
                   /\ h_requested' = h_requested \cup {url}
                   /\ k_pc' = "crawl_get"
    /\ UNCHANGED <<outsideCrawl, sitemap_urls>>
    /\ UNCHANGED <<siteVars, crawler, concurrent_requests, respect_robots,
                   robots_cache, session, cfg, mode, discovered, queue, visited,
                   urls_to_fetch, tasks, sem, documents, raised, calls, h_depth,
                   h_prev, h_clean>>

\* the response arrives: the rest of the turn
WebCrawlResponse ==
    /\ crawler = "web" /\ k_pc = "crawl_get"
    /\ LET url == w_req[1]
           depth == w_req[2]
       IN  \E outcome \in {"ok", "fail"} :  \* fail: exception, not 200, not text/html
              IF outcome = "fail"
              THEN /\ h_clean' = FALSE
                   /\ UNCHANGED <<siteVars, discovered, to_visit, h_depth>>
              ELSE \E ls \in ServedLinks(url) :
                      LET r == WebAddLinks(Ascending(ls), depth, discovered, to_visit,
                                           cfg.max_pages, cfg.allowed_domains)
                      IN  /\ site_links' = [site_links EXCEPT ![url] = ls]
                          /\ site_seen' = site_seen \cup {url}
                          /\ discovered' = r.discovered
                          /\ to_visit' = r.to_visit
                          /\ h_depth' = [p \in Pages |->
                                           IF p \in r.discovered \ discovered
                                           THEN depth + 1 ELSE h_depth[p]]
                          /\ UNCHANGED <<site_sitemap, site_robots, h_clean>>
    /\ w_req' = <<>>
    /\ k_pc' = "crawl"
    /\ UNCHANGED <<outsideCrawl, sitemap_urls>>
    /\ UNCHANGED <<objVars, cfg, mode, queue, visited, urls_to_fetch, tasks, sem,
                   documents, raised, calls, h_requested, h_prev>>

\* the loop ends: `return list(discovered)`, and fetch starts _fetch_urls
WebCrawlReturn ==
    /\ crawler = "web" /\ k_pc = "crawl"
    /\ ~WebLoopCond
    /\ \E order \in Perms(discovered) :
          /\ urls_to_fetch' = order
          /\ tasks' = TasksFor(order)
    /\ sem' = concurrent_requests
    /\ k_pc' = "gather"
    /\ UNCHANGED <<outsideCrawl, sitemap_urls>>
    /\ UNCHANGED <<siteVars, objVars, cfg, mode, to_visit, discovered, w_req, queue,
                   visited, documents, raised, calls, h_requested, h_depth,
                   h_prev, h_clean>>

\* gather returns: `documents = [doc for doc in results if doc is not None]`,
\* then fetch's `finally: await self._close_session()`
WebGatherDone ==
    /\ crawler = "web" /\ k_pc = "gather"
    /\ AllDone(tasks)
    /\ raised' = Propagated(tasks)
    /\ documents' = IF Propagated(tasks) THEN <<>> ELSE DocsOf(tasks)
    /\ session' = "none"
    /\ k_pc' = "done"
    /\ UNCHANGED <<outsideCrawl, sitemap_urls>>
    /\ UNCHANGED <<siteVars, crawler, concurrent_requests, respect_robots,
                   robots_cache, visited_urls, cfg, mode, to_visit, discovered,
                   w_req, queue, visited, urls_to_fetch, tasks, sem, calls,
                   h_requested, h_depth,
                   h_prev, h_clean>>

(***************************************************************************)
(* The gated coroutines of a gather: WebCrawler._fetch_urls,               *)
(* Crawl4AICrawler._fetch_urls_batch and the batch of _crawl_bfs           *)
(***************************************************************************)
\* the links fetch_and_extract keeps for the next level
NewLinks(ls, depth) ==
    IF depth < cfg.max_depth
    THEN SelectSeq(Ascending(ls),
                   LAMBDA link : C4ShouldCrawl(link, cfg.allowed_domains, cfg.respect_robots)
                                 /\ link \notin visited)
    ELSE <<>>

\* a coroutine runs up to its first await: fetch_one may return None on the
\* robots check; otherwise `async with semaphore` and the request goes out
TaskStart(i) ==
    /\ k_pc \in {"gather", "batch"}
    /\ tasks[i].st = "waiting"
    /\ IF crawler = "c4" /\ mode = "sitemap" /\ cfg.respect_robots /\ ~CanFetch(tasks[i].url)
       THEN /\ tasks' = [tasks EXCEPT ![i].st = "done", ![i].result = "none"]
            /\ UNCHANGED <<sem, h_requested>>
       ELSE /\ CanAcquire(sem)
            /\ sem' = sem - 1
            /\ tasks' = [tasks EXCEPT ![i].st = "inflight"]
            /\ h_requested' = h_requested \cup {tasks[i].url}
    /\ UNCHANGED <<outsideCrawl, sitemap_urls>>
    /\ UNCHANGED <<siteVars, objVars, k_pc, cfg, mode, to_visit, discovered, w_req,
                   queue, visited, urls_to_fetch, documents, raised, calls, h_depth,
                   h_prev, h_clean>>

\* the request ends one way or another; the coroutine returns and the
\* semaphore is released on the way out of `async with`
TaskFinish(i) ==
    /\ k_pc \in {"gather", "batch"}
    /\ tasks[i].st = "inflight"
    /\ \E outcome \in Outcomes(crawler) :
          LET t == tasks[i]
              extract == crawler = "c4" /\ mode = "bfs" /\ outcome = "ok"
                         /\ t.depth < cfg.max_depth
          IN  \E ls \in (IF extract THEN ServedLinks(t.url) ELSE {{}}) :
                 /\ tasks' = [tasks EXCEPT ![i] =
                                [t EXCEPT !.st = "done",
                                          !.outcome = outcome,
                                          !.result = TaskResult(crawler, outcome),
                                          !.links = IF extract THEN NewLinks(ls, t.depth)
                                                    ELSE <<>>]]
                 /\ h_clean' = (h_clean /\ outcome = "ok")
                 /\ IF extract
                    THEN /\ site_links' = [site_links EXCEPT ![t.url] = ls]
                         /\ site_seen' = site_seen \cup {t.url}
                    ELSE UNCHANGED <<site_links, site_seen>>
    /\ sem' = sem + 1
    /\ UNCHANGED <<outsideCrawl, sitemap_urls>>
    /\ UNCHANGED <<site_sitemap, site_robots, objVars, k_pc, cfg, mode, to_visit,
                   discovered, w_req, queue, visited, urls_to_fetch, documents,
                   raised, calls, h_requested, h_depth, h_prev>>

(***************************************************************************)
(* Crawl4AICrawler.  URLs are page ids standing for normalised URLs.       *)
(***************************************************************************)
\* fetch(config) up to the first await after _get_crawler
C4Fetch ==
    /\ crawler = "c4" /\ k_pc = "idle" /\ calls < MaxCalls
    /\ \E mp \in 1..MaxPagesCfg, md \in 0..MaxDepthCfg, ad \in AllowedDomainChoices,
          rr \in BOOLEAN, us \in BOOLEAN :
          /\ cfg' = [max_pages |-> mp, max_depth |-> md,
                     allowed_domains |-> IF ad = <<>> THEN <<netloc(StartUrl)>> ELSE ad,
                     respect_robots |-> rr, use_sitemap |-> us]
          /\ k_pc' = IF rr THEN "robots" ELSE "discover"
    /\ calls' = calls + 1
    /\ mode' = "none"
    /\ sitemap_urls' = {}
    /\ documents' = <<>>
    /\ raised' = FALSE
    /\ h_requested' = {}
    /\ h_depth' = [p \in Pages |-> -1]
    /\ h_prev' = [made |-> calls > 0, cfg |-> cfg, urls |-> DocUrls(documents),
                  raised |-> raised, clean |-> h_clean]
    /\ h_clean' = TRUE
    /\ UNCHANGED outsideCrawl
    /\ UNCHANGED <<siteVars, objVars, to_visit, discovered, w_req, queue, visited,
                   urls_to_fetch, tasks, sem>>

\* _load_robots_txt(start_url): rp.read() parses the host's robots.txt, or
\* raises and leaves a parser that never read
C4LoadRobots ==
    /\ crawler = "c4" /\ k_pc = "robots"
    /\ LET base_url == netloc(StartUrl)
       IN  IF robots_cache[base_url] # "absent"
           THEN UNCHANGED robots_cache
           ELSE \E entry \in {"loaded", "unread"} :
                   robots_cache' = [robots_cache EXCEPT ![base_url] = entry]
    /\ k_pc' = "discover"
    /\ UNCHANGED <<outsideCrawl, sitemap_urls>>
    /\ UNCHANGED <<siteVars, crawler, concurrent_requests, respect_robots,
                   visited_urls, session, cfg, mode, to_visit, discovered, w_req,
                   queue, visited, urls_to_fetch, tasks, sem, documents, raised,
                   calls, h_requested, h_depth,
                   h_prev, h_clean>>

\* what AsyncUrlSeeder.urls hands back: up to max_urls sitemap URLs in some
\* order, or nothing (no sitemap, or it raised)
SeederResults ==
    {<<>>} \cup { Take(order, cfg.max_pages) : order \in Perms(site_sitemap) }

\* _discover_from_sitemap: None (here <<>>) or the filtered, capped list
DiscoverFromSitemap(seeded, max_pages, respect) ==
    IF seeded = <<>> THEN <<>>
    ELSE CapToMaxPages(IF respect THEN SelectSeq(seeded, CanFetch) ELSE seeded, max_pages)

\* sitemap discovery, then `if urls_to_fetch:` starts _fetch_urls_batch, else
\* _crawl_bfs
C4Discover ==
    /\ crawler = "c4" /\ k_pc = "discover"
    /\ \E seeded \in SeederResults :
          LET urls == IF cfg.use_sitemap
                      THEN DiscoverFromSitemap(seeded, cfg.max_pages, cfg.respect_robots)
                      ELSE <<>>
          IN  IF urls # <<>>
              THEN /\ sitemap_urls' = Range(urls)
                   /\ urls_to_fetch' = urls
                   /\ tasks' = TasksFor(urls)
                   /\ mode' = "sitemap"
                   /\ k_pc' = "gather"
                   /\ UNCHANGED <<queue, visited>>
              ELSE /\ sitemap_urls' = {}
                   /\ queue' = << <<StartUrl, 0>> >>
                   /\ visited' = {}
                   /\ mode' = "bfs"
                   /\ k_pc' = "bfs"
                   /\ UNCHANGED <<urls_to_fetch, tasks>>
    /\ sem' = concurrent_requests
    /\ UNCHANGED outsideCrawl
    /\ UNCHANGED <<siteVars, objVars, cfg, to_visit, discovered, w_req, documents,
                   raised, calls, h_requested, h_depth,
                   h_prev, h_clean>>

C4LoopCondQueueOnly == queue # <<>>

\* `while queue and len(documents) < max_pages`
C4LoopCond == queue # <<>> /\ Len(documents) < cfg.max_pages

\* an inner loop that pops only the entries it puts in the batch
RECURSIVE BuildBatchKeepsVisited(_, _, _, _, _)
BuildBatchKeepsVisited(q, vis, batch, current_depth, limit) ==
    IF q # <<>> /\ Head(q)[2] = current_depth /\ Len(batch) < limit
       /\ Head(q)[1] \notin vis
    THEN BuildBatchKeepsVisited(Tail(q), vis \cup {Head(q)[1]}, Append(batch, Head(q)),
                                current_depth, limit)
    ELSE [queue |-> q, visited |-> vis, batch |-> batch]

\* the inner while loop that fills `batch`
RECURSIVE BuildBatch(_, _, _, _, _)
BuildBatch(q, vis, batch, current_depth, limit) ==
    IF q # <<>> /\ Head(q)[2] = current_depth /\ Len(batch) < limit
    THEN IF Head(q)[1] \notin vis
         THEN BuildBatch(Tail(q), vis \cup {Head(q)[1]}, Append(batch, Head(q)),
                         current_depth, limit)
         ELSE BuildBatch(Tail(q), vis, batch, current_depth, limit)
    ELSE [queue |-> q, visited |-> vis, batch |-> batch]

\* one turn of the outer loop up to `await asyncio.gather(*tasks)`
C4BatchStart ==
    /\ crawler = "c4" /\ k_pc = "bfs"
    /\ C4LoopCond
    /\ LET r == BuildBatch(queue, visited, <<>>, Head(queue)[2], concurrent_requests)
       IN  /\ queue' = r.queue
           /\ visited' = r.visited
           /\ IF r.batch = <<>>
              THEN UNCHANGED <<tasks, k_pc>>
              ELSE /\ tasks' = [i \in 1..Len(r.batch) |->
                                  NewTask(r.batch[i][1], r.batch[i][2])]
                   /\ k_pc' = "batch"
    /\ UNCHANGED <<outsideCrawl, sitemap_urls>>
    /\ UNCHANGED <<siteVars, objVars, cfg, mode, to_visit, discovered, w_req,
                   urls_to_fetch, sem, documents, raised, calls, h_requested, h_depth,
                   h_prev, h_clean>>

\* `for link in new_links: if link not in visited and ... < max_pages * 2`
RECURSIVE AddToQueue(_, _, _, _, _)
AddToQueue(new_links, depth, q, vis, max_pages) ==
    IF new_links = <<>> THEN q
    ELSE IF Head(new_links) \notin vis /\ Cardinality(vis) + Len(q) < max_pages * 2
         THEN AddToQueue(Tail(new_links), depth,
                         Append(q, <<Head(new_links), depth + 1>>), vis, max_pages)
         ELSE AddToQueue(Tail(new_links), depth, q, vis, max_pages)

\* `for result in results`
RECURSIVE ProcessResults(_, _, _, _, _)
ProcessResults(results, docs, q, vis, max_pages) ==
    IF results = <<>> THEN [documents |-> docs, queue |-> q]
    ELSE LET t == Head(results)
         IN  IF t.result # "doc"
             THEN ProcessResults(Tail(results), docs, q, vis, max_pages)
             ELSE LET docs2 == Append(docs, [url |-> t.url, depth |-> t.depth])
                      q2 == AddToQueue(t.links, t.depth, q, vis, max_pages)
                  IN  IF Len(docs2) >= max_pages
                      THEN [documents |-> docs2, queue |-> q2]
                      ELSE ProcessResults(Tail(results), docs2, q2, vis, max_pages)

\* gather returns: the rest of the turn
C4BatchProcess ==
    /\ crawler = "c4" /\ k_pc = "batch"
    /\ AllDone(tasks)
    /\ IF Propagated(tasks)
       THEN /\ raised' = TRUE
            /\ k_pc' = "done"
            /\ UNCHANGED <<documents, queue>>
       ELSE LET r == ProcessResults(tasks, documents, queue, visited, cfg.max_pages)
            IN  /\ documents' = r.documents
                /\ queue' = r.queue
                /\ k_pc' = "bfs"
                /\ UNCHANGED raised
    /\ tasks' = <<>>
    /\ UNCHANGED <<outsideCrawl, sitemap_urls>>
    /\ UNCHANGED <<siteVars, objVars, cfg, mode, to_visit, discovered, w_req, visited,
                   urls_to_fetch, sem, calls, h_requested, h_depth,
                   h_prev, h_clean>>

\* the outer loop ends: `return documents`
C4BfsReturn ==
    /\ crawler = "c4" /\ k_pc = "bfs"
    /\ ~C4LoopCond
    /\ k_pc' = "done"
    /\ UNCHANGED <<outsideCrawl, sitemap_urls>>
    /\ UNCHANGED <<siteVars, objVars, cfg, mode, to_visit, discovered, w_req, queue,
                   visited, urls_to_fetch, tasks, sem, documents, raised, calls,
                   h_requested, h_depth,
                   h_prev, h_clean>>

\* _fetch_urls_batch: gather returns and the None results are dropped
C4GatherDone ==
    /\ crawler = "c4" /\ k_pc = "gather"
    /\ AllDone(tasks)
    /\ raised' = Propagated(tasks)
    /\ documents' = IF Propagated(tasks) THEN <<>> ELSE DocsOf(tasks)
    /\ k_pc' = "done"
    /\ UNCHANGED <<outsideCrawl, sitemap_urls>>
    /\ UNCHANGED <<siteVars, objVars, cfg, mode, to_visit, discovered, w_req, queue,
                   visited, urls_to_fetch, tasks, sem, calls, h_requested, h_depth,
                   h_prev, h_clean>>

(***************************************************************************)
(* EmbeddingCache (embeddings/cache.py)                                    *)
(*                                                                         *)
(* Strings are sequences of characters; a vector is a sequence of small    *)
(* numbers standing for its floats.  Time is counted in ticks.             *)
(***************************************************************************)
MaxOps == 3     \* cache calls in one run
MaxTime == 2    \* last tick of the clock
MaxBatch == 2   \* texts in one get_many or set_many
CacheTtl == 2   \* self.ttl, in ticks

Models == { <<"m">>, <<"m", ":", "x">> }
Texts == { <<"t">>, <<"x", ":", "t">> }
Vectors == { <<1>>, <<2, 3>> }
Pairs == Models \X Texts

\* hashlib.sha256(...).hexdigest(): a digest that tells apart any two inputs
sha256_hexdigest(content) == <<"sha256", content>>

\* EmbeddingCache._make_key: prefix + sha256(f"{model}:{text}")
make_key(text, model) == <<"embed:", sha256_hexdigest(model \o <<":">> \o text)>>

Keys == { make_key(p[2], p[1]) : p \in Pairs }

Digits == <<"0", "1", "2", "3", "4", "5", "6", "7", "8", "9">>
DigitValue(c) == (CHOOSE d \in 1..10 : Digits[d] = c) - 1

\* json.dumps of a list of numbers: "[" n "," n ... "]"
json_dumps(v) ==
    <<"[">> \o [i \in 1..(IF v = <<>> THEN 0 ELSE 2 * Len(v) - 1) |->
                  IF i % 2 = 1 THEN Digits[v[(i + 1) \div 2] + 1] ELSE ","]
    \o <<"]">>

\* json.loads of such a text
json_loads(s) == [i \in 1..((Len(s) - 1) \div 2) |-> DigitValue(s[2 * i])]

\* GET: the entry, unless there is none or its time is up
RedisGet(key) == IF e_store[key] # <<>> /\ e_now < e_expiry[key] THEN e_store[key] ELSE <<>>

NoCall == [op |-> "none", text |-> <<>>, model |-> <<>>, hit |-> FALSE, value |-> <<>>,
           found |-> {}, raised |-> FALSE, due |-> FALSE, expected |-> <<>>]

Never == [at |-> -1, v |-> <<>>]

CacheIdle ==
    /\ e_client = "none"
    /\ e_store = [k \in Keys |-> <<>>]
    /\ e_expiry = [k \in Keys |-> 0]
    /\ e_now = 0
    /\ e_last = NoCall
    /\ e_ops = 0
    /\ e_faulted = FALSE
    /\ h_set = [p \in Pairs |-> Never]

\* a call that raised out of initialize(): nothing else changed
Raised(op, text, model) ==
    /\ e_last' = [NoCall EXCEPT !.op = op, !.text = text, !.model = model, !.raised = TRUE]
    /\ e_faulted' = TRUE
    /\ e_ops' = e_ops + 1
    /\ UNCHANGED <<e_client, e_store, e_expiry, e_now, h_set, outsideCache>>

\* initialize(): with a client already there it returns at once
ConnectOutcomes == IF e_client = "none" THEN {"ok", "error"} ELSE {"ok"}

\* `await self.initialize()` fails: redis.from_url raises and, the await being
\* outside every try, so does the call
ConnectFails(conn) == e_client = "none" /\ conn = "error"

\* get(text, model)
CacheGet(text, model) ==
    /\ e_ops < MaxOps
    /\ \E conn \in ConnectOutcomes, cmd \in {"ok", "error"} :
          IF ConnectFails(conn) THEN Raised("get", text, model)
          ELSE LET cached == IF cmd = "ok" THEN RedisGet(make_key(text, model)) ELSE <<>>
                   was == h_set[<<model, text>>]
               IN  /\ e_client' = "connected"
                   /\ e_faulted' = (e_faulted \/ cmd = "error")
                   /\ e_last' = [NoCall EXCEPT
                                   !.op = "get", !.text = text, !.model = model,
                                   !.hit = (cached # <<>>),
                                   !.value = IF cached # <<>> THEN json_loads(cached) ELSE <<>>,
                                   !.due = (~e_faulted /\ cmd = "ok" /\ was.at >= 0
                                            /\ e_now < was.at + CacheTtl),
                                   !.expected = was.v]
                   /\ e_ops' = e_ops + 1
                   /\ UNCHANGED <<e_store, e_expiry, e_now, h_set, outsideCache>>

\* set(text, model, embedding)
CacheSet(text, model, embedding) ==
    /\ e_ops < MaxOps
    /\ \E conn \in ConnectOutcomes, cmd \in {"ok", "error"} :
          IF ConnectFails(conn) THEN Raised("set", text, model)
          ELSE /\ e_client' = "connected"
               /\ e_faulted' = (e_faulted \/ cmd = "error")
               /\ IF cmd = "ok"
                  THEN /\ e_store' = [e_store EXCEPT ![make_key(text, model)] =
                                                       json_dumps(embedding)]
                       /\ e_expiry' = [e_expiry EXCEPT ![make_key(text, model)] =
                                                         e_now + CacheTtl]
                  ELSE UNCHANGED <<e_store, e_expiry>>
               /\ h_set' = [h_set EXCEPT ![<<model, text>>] = [at |-> e_now, v |-> embedding]]
               /\ e_last' = [NoCall EXCEPT !.op = "set", !.text = text, !.model = model]
               /\ e_ops' = e_ops + 1
               /\ UNCHANGED <<e_now, outsideCache>>

\* get_many(texts, model): a map, here the set of its <<text, embedding>> items
CacheGetMany(texts, model) ==
    /\ e_ops < MaxOps
    /\ \E conn \in ConnectOutcomes, cmd \in {"ok", "error"} :
          IF ConnectFails(conn) THEN Raised("get_many", texts, model)
          ELSE /\ e_client' = "connected"
               /\ e_faulted' = (e_faulted \/ (cmd = "error" /\ texts # <<>>))
               /\ e_last' = [NoCall EXCEPT
                               !.op = "get_many", !.text = texts, !.model = model,
                               !.found = IF texts = <<>> \/ cmd = "error" THEN {}
                                         ELSE { <<texts[i], json_loads(RedisGet(make_key(texts[i], model)))>> :
                                                  i \in { j \in 1..Len(texts) :
                                                            RedisGet(make_key(texts[j], model)) # <<>> } }]
               /\ e_ops' = e_ops + 1
               /\ UNCHANGED <<e_store, e_expiry, e_now, h_set, outsideCache>>

\* the pipeline of set_many, command by command
RECURSIVE PipeSetex(_, _, _, _, _)
PipeSetex(texts, model, embeddings, store, field) ==
    IF texts = <<>> THEN store
    ELSE PipeSetex(Tail(texts), model, Tail(embeddings),
                   [store EXCEPT ![make_key(Head(texts), model)] =
                      IF field = "value" THEN json_dumps(Head(embeddings))
                      ELSE e_now + CacheTtl],
                   field)

RECURSIVE NoteSets(_, _, _, _)
NoteSets(texts, model, embeddings, h) ==
    IF texts = <<>> THEN h
    ELSE NoteSets(Tail(texts), model, Tail(embeddings),
                  [h EXCEPT ![<<model, Head(texts)>>] = [at |-> e_now, v |-> Head(embeddings)]])

\* set_many(texts, model, embeddings)
CacheSetMany(texts, model, embeddings) ==
    /\ e_ops < MaxOps
    /\ \E conn \in ConnectOutcomes, cmd \in {"ok", "error"} :
          IF ConnectFails(conn) THEN Raised("set_many", texts, model)
          ELSE LET skip == texts = <<>> \/ embeddings = <<>> \/ Len(texts) # Len(embeddings)
               IN  /\ e_client' = "connected"
                   /\ e_faulted' = (e_faulted \/ (cmd = "error" /\ ~skip))
                   /\ IF skip \/ cmd = "error"
                      THEN UNCHANGED <<e_store, e_expiry>>
                      ELSE /\ e_store' = PipeSetex(texts, model, embeddings, e_store, "value")
                           /\ e_expiry' = PipeSetex(texts, model, embeddings, e_expiry, "expiry")
                   /\ h_set' = IF skip THEN h_set ELSE NoteSets(texts, model, embeddings, h_set)
                   /\ e_last' = [NoCall EXCEPT !.op = "set_many", !.text = texts, !.model = model]
                   /\ e_ops' = e_ops + 1
                   /\ UNCHANGED <<e_now, outsideCache>>

\* time passes
Tick ==
    /\ e_now < MaxTime
    /\ e_now' = e_now + 1
    /\ UNCHANGED <<e_client, e_store, e_expiry, e_last, e_ops, e_faulted, h_set, outsideCache>>

(***************************************************************************)
(* Crawl4AICrawler._normalize_url (ingestion/crawl4ai_crawler.py)          *)
(*                                                                         *)
(* A URL is a sequence: the scheme with its "://", then the characters     *)
(* that follow.  Every URL here has a host, so no URL ends with the        *)
(* scheme's own slashes.                                                   *)
(***************************************************************************)
MaxUrlLen == 4  \* characters after the host's first letter

UrlChars == {"h", "/", "?", "#", ";"}
Schemes == {"http://", "https://"}

\* str.find of a character of C at or after position `from`; Len(s) + 1: none
FindFirst(s, C, from) ==
    LET hits == { i \in from..Len(s) : s[i] \in C }
    IN  IF hits = {} THEN Len(s) + 1 ELSE CHOOSE i \in hits : \A j \in hits : i <= j

\* str.rfind of a character of C; 0: none
FindLast(s, C) ==
    LET hits == { i \in 1..Len(s) : s[i] \in C }
    IN  IF hits = {} THEN 0 ELSE CHOOSE i \in hits : \A j \in hits : i >= j

\* urllib.parse._splitparams: the params of the last path segment
splitparams(url) ==
    LET i == IF FindLast(url, {"/"}) > 0
             THEN FindFirst(url, {";"}, FindLast(url, {"/"}))
             ELSE FindFirst(url, {";"}, 1)
    IN  IF i > Len(url) THEN [path |-> url, params |-> <<>>]
        ELSE [path |-> SubSeq(url, 1, i - 1), params |-> SubSeq(url, i + 1, Len(url))]

\* urllib.parse.urlparse of scheme://rest
urlparse(url) ==
    LET rest == Tail(url)
        n == FindFirst(rest, {"/", "?", "#"}, 1)
        after == SubSeq(rest, n, Len(rest))
        f == FindFirst(after, {"#"}, 1)
        nofrag == SubSeq(after, 1, f - 1)
        q == FindFirst(nofrag, {"?"}, 1)
        noquery == SubSeq(nofrag, 1, q - 1)
        pp == IF \E i \in 1..Len(noquery) : noquery[i] = ";"
              THEN splitparams(noquery) ELSE [path |-> noquery, params |-> <<>>]
    IN  [scheme |-> Head(url),
         netloc |-> SubSeq(rest, 1, n - 1),
         path |-> pp.path,
         params |-> pp.params,
         query |-> SubSeq(nofrag, q + 1, Len(nofrag)),
         fragment |-> SubSeq(after, f + 1, Len(after))]

\* Crawl4AICrawler._normalize_url
normalize_url(url) ==
    LET parsed == urlparse(url)
        normalized == <<parsed.scheme>> \o parsed.netloc \o parsed.path
        stripped == IF normalized[Len(normalized)] = "/" /\ parsed.path # <<"/">>
                    THEN SubSeq(normalized, 1, Len(normalized) - 1)
                    ELSE normalized
    IN  IF parsed.query # <<>> THEN stripped \o <<"?">> \o parsed.query ELSE stripped

Urls ==
    { <<sch, "h">> \o t : sch \in Schemes,
                        t \in UNION { [1..n -> UrlChars] : n \in 0..MaxUrlLen } }

UrlIdle == u_pc = "idle" /\ u_url = <<>> /\ u_once = <<>> /\ u_twice = <<>>

UrlInit == u_pc = "input" /\ u_url \in Urls /\ u_once = <<>> /\ u_twice = <<>>

NormalizeOnce ==
    /\ u_pc = "input"
    /\ u_once' = normalize_url(u_url)
    /\ u_pc' = "once"
    /\ UNCHANGED <<u_url, u_twice, outsideUrl>>

NormalizeAgain ==
    /\ u_pc = "once"
    /\ u_twice' = normalize_url(u_once)
    /\ u_pc' = "twice"
    /\ UNCHANGED <<u_url, u_once, outsideUrl>>

(***************************************************************************)
(* The chunkers (processing/chunkers/fixed_size.py, semantic.py)           *)
(*                                                                         *)
(* A text is the sequence of its characters; positions are counted from 0  *)
(* as in the code, character k of a text s being s[k + 1].                 *)
(***************************************************************************)
MaxChunkSize == 5       \* largest chunk size of the small cases
MaxTextLen == 6         \* longest text of the small cases
SettingsChunkSize == 512
SettingsChunkOverlap == 50

Whitespace == {" ", "\n"}

\* text[a:b]
Slice(text, a, b) == SubSeq(text, a + 1, b)

\* str.strip()
Strip(text) ==
    LET solid == { i \in 1..Len(text) : text[i] \notin Whitespace }
    IN  IF solid = {} THEN <<>>
        ELSE SubSeq(text, CHOOSE i \in solid : \A j \in solid : i <= j,
                          CHOOSE i \in solid : \A j \in solid : i >= j)

\* text.rfind("\n", start, end)
RFindNewline(text, start, end) ==
    LET hits == { k \in start..(end - 1) : text[k + 1] = "\n" }
    IN  IF hits = {} THEN -1 ELSE CHOOSE k \in hits : \A j \in hits : k >= j

\* `x or default`
OrDefault(x, default) == IF x = 0 THEN default ELSE x

TextChunk(content, index, start_char, end_char) ==
    [content |-> content, index |-> index, start_char |-> start_char, end_char |-> end_char]

\* an index that counts every window
IndexAfterEveryWindow(index, emitted) == index + 1

\* a window one character longer than chunk_size
WindowEndTooFar(text, start, chunk_size) ==
    IF start + chunk_size + 1 < Len(text) THEN start + chunk_size + 1 ELSE Len(text)

\* a next window that starts where the last one ended
NextStartNoOverlap(start, end, chunk_overlap) == end

\* FixedSizeChunker._chunk_sync: where the window that starts at `start` ends
WindowEnd(text, start, chunk_size) ==
    LET end == IF start + chunk_size < Len(text) THEN start + chunk_size ELSE Len(text)
        separator_pos == RFindNewline(text, start, end)
    IN  IF end < Len(text) /\ separator_pos > start + (chunk_size \div 2)
        THEN separator_pos + 1 ELSE end

\* FixedSizeChunker._chunk_sync: where the next window starts
NextStart(start, end, chunk_overlap) ==
    IF end - chunk_overlap <= start THEN start + 1 ELSE end - chunk_overlap

\* FixedSizeChunker._chunk_sync: the index after a window, emitted or skipped
IndexAfter(index, emitted) == IF emitted THEN index + 1 ELSE index

\* FixedSizeChunker._chunk_sync: the while loop
RECURSIVE FixedLoop(_, _, _, _, _, _)
FixedLoop(text, chunk_size, chunk_overlap, start, index, chunks) ==
    IF ~(start < Len(text)) THEN chunks
    ELSE LET end == WindowEnd(text, start, chunk_size)
             chunk_text == Strip(Slice(text, start, end))
             emitted == chunk_text # <<>>
             chunks2 == IF emitted
                        THEN Append(chunks, TextChunk(chunk_text, index, start, end))
                        ELSE chunks
             index2 == IndexAfter(index, emitted)
         IN  IF end >= Len(text) THEN chunks2
             ELSE FixedLoop(text, chunk_size, chunk_overlap,
                            NextStart(start, end, chunk_overlap), index2, chunks2)

\* FixedSizeChunker.chunk
FixedChunks(text, chunk_size, chunk_overlap) ==
    IF text = <<>> THEN <<>> ELSE FixedLoop(text, chunk_size, chunk_overlap, 0, 0, <<>>)

Repeat(c, n) == [i \in 1..n |-> c]

FixedTexts == UNION { [1..n -> {"a", " ", "\n"}] : n \in 0..MaxTextLen }

\* the small cases, the 200-character example, and a chunker asked for no
\* overlap on a text of two windows
FixedCases ==
    { [size |-> sz, overlap |-> ov, text |-> t] :
        sz \in 0..MaxChunkSize, ov \in 0..MaxChunkSize, t \in FixedTexts }
    \cup { [size |-> 50, overlap |-> 10, text |-> Repeat("a", 200)],
           [size |-> 60, overlap |-> 0, text |-> Repeat("a", 100)] }

ChunkIdle ==
    /\ c_pc = "idle" /\ c_kind = "none" /\ c_args = [size |-> 0, overlap |-> 0]
    /\ c_size = 0 /\ c_overlap = 0 /\ c_text = <<>> /\ c_chunks = <<>>

FixedInit ==
    /\ c_pc = "new" /\ c_kind = "fixed"
    /\ \E case \in FixedCases :
          /\ c_args = [size |-> case.size, overlap |-> case.overlap]
          /\ c_text = case.text
    /\ c_size = 0 /\ c_overlap = 0 /\ c_chunks = <<>>

\* FixedSizeChunker.__init__
FixedConstruct ==
    /\ c_pc = "new" /\ c_kind = "fixed"
    /\ c_size' = OrDefault(c_args.size, SettingsChunkSize)
    /\ c_overlap' = OrDefault(c_args.overlap, SettingsChunkOverlap)
    /\ c_pc' = IF c_overlap' >= c_size' THEN "raised" ELSE "ready"
    /\ UNCHANGED <<c_kind, c_args, c_text, c_chunks, outsideChunk>>

\* FixedSizeChunker.chunk(text)
FixedChunk ==
    /\ c_pc = "ready" /\ c_kind = "fixed"
    /\ c_chunks' = FixedChunks(c_text, c_size, c_overlap)
    /\ c_pc' = "done"
    /\ UNCHANGED <<c_kind, c_args, c_size, c_overlap, c_text, outsideChunk>>

(***************************************************************************)
(* SemanticChunker                                                         *)
(***************************************************************************)
MaxSemanticSize == 3    \* largest max_chunk_size of the small cases

\* 1 to 6 "#" and then a whitespace character, from position k (1-based) on
HeaderAhead(text, k) ==
    \E n \in 1..6 :
        /\ k + n <= Len(text)
        /\ \A j \in k..(k + n - 1) : text[j] = "#"
        /\ text[k + n] \in Whitespace

\* the end of the run of newlines that starts at position i
RECURSIVE NewlineRunEnd(_, _)
NewlineRunEnd(text, i) ==
    IF i < Len(text) /\ text[i + 1] = "\n" THEN NewlineRunEnd(text, i + 1) ELSE i

\* _SECTION_PATTERN.split(text): cut at a newline before a header, or at a run
\* of two or more newlines
RECURSIVE SplitSections(_, _, _, _)
SplitSections(text, i, cur, acc) ==
    IF i > Len(text) THEN Append(acc, cur)
    ELSE IF text[i] = "\n" /\ HeaderAhead(text, i + 1)
         THEN SplitSections(text, i + 1, <<>>, Append(acc, cur))
    ELSE IF text[i] = "\n" /\ i < Len(text) /\ text[i + 1] = "\n"
         THEN SplitSections(text, NewlineRunEnd(text, i) + 1, <<>>, Append(acc, cur))
    ELSE SplitSections(text, i + 1, Append(cur, text[i]), acc)

\* [p.strip() for p in parts if p.strip()]
RECURSIVE StrippedNonEmpty(_)
StrippedNonEmpty(parts) ==
    IF parts = <<>> THEN <<>>
    ELSE (IF Strip(Head(parts)) # <<>> THEN <<Strip(Head(parts))>> ELSE <<>>)
         \o StrippedNonEmpty(Tail(parts))

\* section.split("\n")
RECURSIVE SplitLines(_, _, _, _)
SplitLines(text, i, cur, acc) ==
    IF i > Len(text) THEN Append(acc, cur)
    ELSE IF text[i] = "\n" THEN SplitLines(text, i + 1, <<>>, Append(acc, cur))
    ELSE SplitLines(text, i + 1, Append(cur, text[i]), acc)

\* "\n".join(parts)
RECURSIVE JoinLines(_)
JoinLines(parts) ==
    IF parts = <<>> THEN <<>>
    ELSE IF Len(parts) = 1 THEN Head(parts)
    ELSE Head(parts) \o <<"\n">> \o JoinLines(Tail(parts))

\* _chunk_section: the fixed-size pieces of an oversized paragraph
HardSplit(para, para_start, max_size, first_index) ==
    [n \in 1..((Len(para) + max_size - 1) \div max_size) |->
        LET i == (n - 1) * max_size
            para_chunk == Slice(para, i, IF i + max_size < Len(para) THEN i + max_size
                                         ELSE Len(para))
        IN  TextChunk(para_chunk, first_index + n - 1, para_start + i,
                      para_start + i + Len(para_chunk))]

\* _chunk_section: the accumulated paragraphs saved as one chunk
Saved(st, start_index) ==
    LET chunk_text == JoinLines(st.current_chunk)
    IN  [st EXCEPT !.chunks = Append(st.chunks,
                       TextChunk(chunk_text, start_index + Len(st.chunks),
                                 st.chunk_start, st.chunk_start + Len(chunk_text))),
                   !.chunk_start = st.chunk_start + Len(chunk_text) + 1]

\* _chunk_section: the loop over the paragraphs
RECURSIVE ParaLoop(_, _, _, _)
ParaLoop(paragraphs, st, max_size, start_index) ==
    IF paragraphs = <<>>
    THEN IF st.current_chunk # <<>> THEN Saved(st, start_index).chunks ELSE st.chunks
    ELSE LET para == Head(paragraphs)
             para_size == Len(para)
         IN  IF para_size > max_size
             THEN LET s1 == IF st.current_chunk # <<>>
                            THEN [Saved(st, start_index) EXCEPT !.current_chunk = <<>>,
                                                                !.current_size = 0]
                            ELSE st
                      para_start == s1.chunk_start
                  IN  ParaLoop(Tail(paragraphs),
                               [s1 EXCEPT !.chunks = s1.chunks \o
                                           HardSplit(para, para_start, max_size,
                                                     start_index + Len(s1.chunks)),
                                          !.chunk_start = para_start + para_size + 1],
                               max_size, start_index)
             ELSE IF st.current_size + para_size > max_size /\ st.current_chunk # <<>>
             THEN ParaLoop(Tail(paragraphs),
                           [Saved(st, start_index) EXCEPT !.current_chunk = <<para>>,
                                                          !.current_size = para_size],
                           max_size, start_index)
             ELSE ParaLoop(Tail(paragraphs),
                           [st EXCEPT !.current_chunk = Append(st.current_chunk, para),
                                      !.current_size = st.current_size + para_size + 1],
                           max_size, start_index)

\* SemanticChunker._chunk_section
chunk_section(section, start_offset, start_index, max_size) ==
    IF Len(section) <= max_size
    THEN <<TextChunk(section, start_index, start_offset, start_offset + Len(section))>>
    ELSE ParaLoop(StrippedNonEmpty(SplitLines(section, 1, <<>>, <<>>)),
                  [chunks |-> <<>>, current_chunk |-> <<>>, current_size |-> 0,
                   chunk_start |-> start_offset],
                  max_size, start_index)

\* SemanticChunker._chunk_sync: the loop over the sections
RECURSIVE SectionLoop(_, _, _, _, _)
SectionLoop(sections, chunks, index, char_offset, max_size) ==
    IF sections = <<>> THEN chunks
    ELSE LET section_chunks == chunk_section(Head(sections), char_offset, index, max_size)
         IN  SectionLoop(Tail(sections), chunks \o section_chunks,
                         index + Len(section_chunks),
                         char_offset + Len(Head(sections)) + 2, max_size)

\* SemanticChunker.chunk
SemanticChunks(text, max_size) ==
    IF text = <<>> THEN <<>>
    ELSE SectionLoop(StrippedNonEmpty(SplitSections(text, 1, <<>>, <<>>)),
                     <<>>, 0, 0, max_size)

SemanticTexts == UNION { [1..n -> {"a", " ", "\n", "#"}] : n \in 0..MaxTextLen }

SemanticInit ==
    /\ c_pc = "new" /\ c_kind = "semantic"
    /\ c_args \in { [size |-> sz, overlap |-> 0] : sz \in 0..MaxSemanticSize }
    /\ c_text \in SemanticTexts
    /\ c_size = 0 /\ c_overlap = 0 /\ c_chunks = <<>>

\* SemanticChunker.__init__
SemanticConstruct ==
    /\ c_pc = "new" /\ c_kind = "semantic"
    /\ c_size' = OrDefault(c_args.size, SettingsChunkSize)
    /\ c_pc' = "ready"
    /\ UNCHANGED <<c_kind, c_args, c_overlap, c_text, c_chunks, outsideChunk>>

\* SemanticChunker.chunk(text)
SemanticChunk ==
    /\ c_pc = "ready" /\ c_kind = "semantic"
    /\ c_chunks' = SemanticChunks(c_text, c_size)
    /\ c_pc' = "done"
    /\ UNCHANGED <<c_kind, c_args, c_size, c_overlap, c_text, outsideChunk>>

(***************************************************************************)
(* MultiStageReranker (search/reranker.py)                                 *)
(*                                                                         *)
(* A float is a whole number of units of its last place; a product with a  *)
(* fraction is rounded to the nearest unit.  Weights are in hundredths.    *)
(***************************************************************************)
MaxRanked == 2      \* results in one rerank call
MaxScore == 3       \* largest vector score, in units
RelevanceWeight == 35
CodeQualityWeight == 25
FormattingWeight == 15
MetadataWeight == 10
InitializationWeight == 15

\* n / d rounded to the nearest unit
RoundDiv(n, d) == (2 * n + d) \div (2 * d)

WeightTotal ==
    RelevanceWeight + CodeQualityWeight + FormattingWeight + MetadataWeight
    + InitializationWeight

\* rerank: the weighted sum of the five metric scores
Combined(m) ==
    RoundDiv(m.relevance * RelevanceWeight + m.code_quality * CodeQualityWeight
             + m.formatting * FormattingWeight + m.metadata * MetadataWeight
             + m.initialization * InitializationWeight, WeightTotal)

\* rerank: final_score = 0.7 * final_score + 0.3 * vector_score
Blend(final_score, vector_score) == RoundDiv(7 * final_score + 3 * vector_score, 10)

MetricNames ==
    {"relevance", "code_quality", "formatting", "metadata", "initialization"}

\* dict.get(key, 0.0) on the scores stored in a result's metadata
GetOrZero(stored, key) == IF key \in DOMAIN stored THEN stored[key] ELSE 0

\* rerank, `if use_stored_scores and "metadata" in result`: the stored scores
StoredBranch(result, use_stored_scores) == use_stored_scores /\ result.has_metadata

\* rerank: the five scores of a result, read from its metadata or computed
\* from its content (result.metrics stands for what the _compute_*_score
\* methods return for the content and the query)
UsedMetrics(result, use_stored_scores) ==
    IF StoredBranch(result, use_stored_scores)
    THEN [k \in MetricNames |-> GetOrZero(result.stored, k)]
    ELSE result.metrics

RankedResult(result, use_stored_scores) ==
    LET m == UsedMetrics(result, use_stored_scores)
    IN  [id |-> result.id, vector_score |-> result.score, metrics |-> m,
         final_score |-> Blend(Combined(m), result.score)]

\* list.sort(key=final_score, reverse=True): equal keys keep their order
RECURSIVE InsertByFinalScore(_, _)
InsertByFinalScore(x, sorted) ==
    IF sorted = <<>> THEN <<x>>
    ELSE IF Head(sorted).final_score >= x.final_score
         THEN <<Head(sorted)>> \o InsertByFinalScore(x, Tail(sorted))
         ELSE <<x>> \o sorted

RECURSIVE SortByFinalScore(_, _)
SortByFinalScore(items, sorted) ==
    IF items = <<>> THEN sorted
    ELSE SortByFinalScore(Tail(items), InsertByFinalScore(Head(items), sorted))

\* MultiStageReranker.rerank
rerank(results, use_stored_scores) ==
    SortByFinalScore([i \in 1..Len(results) |->
                        RankedResult(results[i], use_stored_scores)], <<>>)

MetricChoices ==
    { [relevance |-> 0, code_quality |-> 0, formatting |-> 0, metadata |-> 0,
       initialization |-> 0],
      [relevance |-> 10, code_quality |-> 10, formatting |-> 10, metadata |-> 10,
       initialization |-> 10],
      [relevance |-> 10, code_quality |-> 0, formatting |-> 0, metadata |-> 0,
       initialization |-> 10] }

NoScores == [k \in {} |-> 0]

\* a result without metadata, with a metadata map that holds no score, and
\* with all five scores stored
MetadataChoices ==
    { [has_metadata |-> FALSE, stored |-> NoScores],
      [has_metadata |-> TRUE, stored |-> NoScores],
      [has_metadata |-> TRUE, stored |-> [k \in MetricNames |-> 10]] }

\* the id of a result is its position in the input
RerankInputs ==
    UNION { { [i \in 1..n |-> [id |-> i, score |-> f[i][1], metrics |-> f[i][2],
                               has_metadata |-> f[i][3].has_metadata,
                               stored |-> f[i][3].stored]] :
                f \in [1..n -> (0..MaxScore) \X MetricChoices \X MetadataChoices] } :
            n \in 0..MaxRanked }

RerankIdle ==
    r_pc = "idle" /\ r_results = <<>> /\ r_use_stored = TRUE /\ r_ranked = <<>>

RerankInit ==
    /\ r_pc = "call" /\ r_results \in RerankInputs /\ r_use_stored \in BOOLEAN
    /\ r_ranked = <<>>

Rerank ==
    /\ r_pc = "call"
    /\ r_ranked' = rerank(r_results, r_use_stored)
    /\ r_pc' = "done"
    /\ UNCHANGED <<r_results, r_use_stored, outsideRerank>>

(***************************************************************************)
(* SourceService (services/source_service.py) over the sources table       *)
(*                                                                         *)
(* The table is built either by init_db.py (Base.metadata.create_all of    *)
(* models/source.py: CHECK constraints on type and status, name indexed    *)
(* but not unique) or by the migrations (001_initial_schema.py: name       *)
(* UNIQUE, no CHECK constraint).  Every caller has a session of its own    *)
(* and sees the rows that are committed.                                   *)
(***************************************************************************)
MaxCallers == 2       \* concurrent create_source callers
MaxSourceCalls == 3   \* create_source and update_source calls in one run

Callers == 1..MaxCallers
Names == {"a", "b"}
\* SourceCreate.type: ^(web|git|file|api)$
SourceTypes == {"web", "git"}
\* SourceUpdate.status: None or ^(active|inactive|error)$
UpdateStatuses == {"", "active", "inactive", "error"}
\* CheckConstraint valid_source_status of models/source.py
ValidSourceStatus == {"active", "paused", "error"}
\* CheckConstraint valid_source_type of models/source.py
ValidSourceType == {"web", "git", "file", "api"}

NoSourceCall == [pc |-> "idle", name |-> "", type |-> ""]

Finished(op, dup, error, changed) ==
    [op |-> op, dup |-> dup, error |-> error, changed |-> changed]

\* flush: the constraint of the table that rejects the row, "" if none does
Violation(row, others) ==
    IF db_schema = "migrations"
    THEN IF \E o \in others : o.name = row.name THEN "UniqueViolation" ELSE ""
    ELSE IF row.status \notin ValidSourceStatus \/ row.type \notin ValidSourceType
         THEN "CheckViolation" ELSE ""

SourceIdle ==
    /\ db_schema = "none" /\ db_sources = {}
    /\ s_calls = [c \in Callers |-> NoSourceCall]
    /\ s_made = 0
    /\ s_last = Finished("none", FALSE, "", FALSE)

SourceInit ==
    /\ db_schema \in {"create_all", "migrations"}
    /\ db_sources = {}
    /\ s_calls = [c \in Callers |-> NoSourceCall]
    /\ s_made = 0
    /\ s_last = Finished("none", FALSE, "", FALSE)

\* create_source(name, type, ...) is called
CreateBegin(c, name, type) ==
    /\ s_calls[c].pc = "idle"
    /\ s_made < MaxSourceCalls
    /\ s_calls' = [s_calls EXCEPT ![c] = [pc |-> "check", name |-> name, type |-> type]]
    /\ s_made' = s_made + 1
    /\ UNCHANGED <<db_schema, db_sources, s_last, outsideSource>>

\* create_source: existing = await self.repo.get_by_name(name)
CreateCheck(c) ==
    /\ s_calls[c].pc = "check"
    /\ LET found == { r \in db_sources : r.name = s_calls[c].name }
       IN  IF found = {}
           THEN /\ s_calls' = [s_calls EXCEPT ![c].pc = "flush"]
                /\ UNCHANGED s_last
           ELSE /\ s_calls' = [s_calls EXCEPT ![c] = NoSourceCall]
                /\ s_last' = Finished("create", TRUE,
                                      IF Cardinality(found) > 1 THEN "MultipleResultsFound"
                                      ELSE "SOURCE_EXISTS", FALSE)
    /\ UNCHANGED <<db_schema, db_sources, s_made, outsideSource>>

\* create_source: Source(...), repo.create (add, flush, refresh), commit
CreateFlush(c) ==
    /\ s_calls[c].pc = "flush"
    /\ LET row == [id |-> Cardinality(db_sources) + 1, name |-> s_calls[c].name,
                   type |-> s_calls[c].type, status |-> "active"]
           dup == \E r \in db_sources : r.name = row.name
           error == Violation(row, db_sources)
       IN  /\ db_sources' = IF error = "" THEN db_sources \cup {row} ELSE db_sources
           /\ s_last' = Finished("create", dup, error, error = "")
    /\ s_calls' = [s_calls EXCEPT ![c] = NoSourceCall]
    /\ UNCHANGED <<db_schema, s_made, outsideSource>>

\* update_source(source_id, name, status): get_source, the assignments, flush, commit
UpdateSource(source_id, name, status) ==
    /\ s_made < MaxSourceCalls
    /\ s_made' = s_made + 1
    /\ LET found == { r \in db_sources : r.id = source_id }
       IN  IF found = {}
           THEN /\ s_last' = Finished("update", FALSE, "SOURCE_NOT_FOUND", FALSE)
                /\ UNCHANGED db_sources
           ELSE LET source == CHOOSE r \in found : TRUE
                    others == db_sources \ {source}
                    row == [source EXCEPT
                              !.name = IF name # "" THEN name ELSE source.name,
                              !.status = IF status # "" THEN status ELSE source.status]
                    dup == name # "" /\ \E o \in others : o.name = name
                    error == Violation(row, others)
                IN  /\ db_sources' = IF error = "" THEN others \cup {row} ELSE db_sources
                    /\ s_last' = Finished("update", dup, error,
                                          error = "" /\ row # source)
    /\ UNCHANGED <<db_schema, s_calls, outsideSource>>

(***************************************************************************)
(* MultiStageReranker._compute_relevance_score.  Scores are in thousandths. *)
(***************************************************************************)
MaxQueryLen == 4      \* characters of a query
MaxContentLen == 5    \* characters of a content

RelChars == {"a", "B", " "}

\* str.lower()
LowerChar(c) == IF c = "B" THEN "b" ELSE c
Lower(text) == [i \in 1..Len(text) |-> LowerChar(text[i])]

\* `needle in hay`
Contains(hay, needle) ==
    \E i \in 0..(Len(hay) - Len(needle)) : SubSeq(hay, i + 1, i + Len(needle)) = needle

\* str.split(): the runs of characters between whitespace, in order
RECURSIVE SplitWords(_, _)
SplitWords(text, word) ==
    IF text = <<>> THEN (IF word = <<>> THEN <<>> ELSE <<word>>)
    ELSE IF Head(text) = " "
         THEN (IF word = <<>> THEN <<>> ELSE <<word>>) \o SplitWords(Tail(text), <<>>)
         ELSE SplitWords(Tail(text), Append(word, Head(text)))

\* set(re.findall(r'\w+', text)): over letters and blanks, the same runs
WordSet(text) == Range(SplitWords(text, <<>>))

\* str.count(term): occurrences that do not overlap, from the left
RECURSIVE CountOf(_, _)
CountOf(hay, term) ==
    IF Len(hay) < Len(term) THEN 0
    ELSE IF SubSeq(hay, 1, Len(term)) = term
         THEN 1 + CountOf(SubSeq(hay, Len(term) + 1, Len(hay)), term)
         ELSE CountOf(Tail(hay), term)

\* `if query_lower in content_lower: score += 0.4`
PhraseTerm(query_lower, content_lower) ==
    IF Contains(content_lower, query_lower) THEN 400 ELSE 0

\* a word-set term that divides by the words of query and content together
JaccardTerm(query_words, content_words) ==
    IF query_words = {} THEN 0
    ELSE (300 * Cardinality(query_words \cap content_words))
            \div Cardinality(query_words \cup content_words)

\* `overlap = len(query_words & content_words) / len(query_words)`,
\* `score += 0.3 * overlap`
OverlapTerm(query_words, content_words) ==
    IF query_words = {} THEN 0
    ELSE (300 * Cardinality(query_words \cap content_words))
            \div Cardinality(query_words)

\* `score += min(0.1 * (count / 10), 0.3)` for a term of 3 characters or more
\* that occurs in the content
TermBonus(term, content_lower) ==
    IF Len(term) < 3 THEN 0
    ELSE LET count == CountOf(content_lower, term)
         IN  IF count > 0 THEN Min(10 * count, 300) ELSE 0

RECURSIVE FrequencyTerm(_, _)
FrequencyTerm(query_terms, content_lower) ==
    IF query_terms = <<>> THEN 0
    ELSE TermBonus(Head(query_terms), content_lower)
         + FrequencyTerm(Tail(query_terms), content_lower)

\* the score before `return min(score, 1.0)`
RelevanceSum(query, content) ==
    PhraseTerm(Lower(query), Lower(content))
    + OverlapTerm(WordSet(Lower(query)), WordSet(Lower(content)))
    + FrequencyTerm(SplitWords(Lower(query), <<>>), Lower(content))

\* MultiStageReranker._compute_relevance_score
compute_relevance_score(query, content) == Min(RelevanceSum(query, content), 1000)

RelTexts(n) == UNION { [1..k -> RelChars] : k \in 0..n }

RECURSIVE Joined(_)
Joined(words) ==
    IF words = <<>> THEN <<>>
    ELSE IF Len(words) = 1 THEN Head(words)
    ELSE Head(words) \o <<" ">> \o Joined(Tail(words))

\* the short texts, and a query of four terms each found ten times in the
\* content
RelevanceCases ==
    { [query |-> q, content |-> c] : q \in RelTexts(MaxQueryLen), c \in RelTexts(MaxContentLen) }
    \cup { [query |-> Joined([i \in 1..4 |-> <<"a", "a", "a">>]),
            content |-> Joined([i \in 1..10 |-> <<"a", "a", "a">>])] }

RelIdle == v_pc = "idle" /\ v_query = <<>> /\ v_content = <<>> /\ v_score = 0

RelInit ==
    /\ v_pc = "call"
    /\ \E case \in RelevanceCases : v_query = case.query /\ v_content = case.content
    /\ v_score = 0

ComputeRelevance ==
    /\ v_pc = "call"
    /\ v_score' = compute_relevance_score(v_query, v_content)
    /\ v_pc' = "done"
    /\ UNCHANGED <<v_query, v_content, outsideRel>>

(***************************************************************************)
(* WebCrawler: concurrent calls on one instance.  A call runs without      *)
(* interruption from one await that suspends to the next.                  *)
(***************************************************************************)
MaxSessCallers == 2   \* concurrent callers of one WebCrawler

SessCallers == 1..MaxSessCallers

\* fetch_single makes one request; fetch makes the sitemap request and then
\* the requests for pages, each through self.session as it is at that time
CallKinds == {"fetch_single", "fetch"}

RequestsOf(kind) == IF kind = "fetch_single" THEN 1 ELSE 2

NoSessCall == [pc |-> "idle", kind |-> "none", left |-> 0, req |-> 0, error |-> "none"]

\* self.session.get(url): AttributeError on None, RuntimeError on a closed
\* session, else a request pending on that session
GetOn(sess, closed) ==
    IF sess = 0 THEN "AttributeError"
    ELSE IF sess \in closed THEN "SessionClosed"
    ELSE "pending"

SessIdle ==
    /\ x_session = 0 /\ x_closed = {} /\ x_made = 0
    /\ x_calls = [c \in SessCallers |-> NoSessCall]

\* _close_session up to `await self.session.close()`: the session is closed;
\* the await either suspends (the call is left "closing") or does not, and
\* then `self.session = None` follows at once
CloseSession(c, call) ==
    IF x_session = 0
    THEN /\ x_calls' = [x_calls EXCEPT ![c] = [call EXCEPT !.pc = "done"]]
         /\ UNCHANGED <<x_session, x_closed>>
    ELSE /\ x_closed' = x_closed \cup {x_session}
         /\ \/ /\ x_calls' = [x_calls EXCEPT ![c] = [call EXCEPT !.pc = "closing"]]
               /\ UNCHANGED x_session
            \/ /\ x_calls' = [x_calls EXCEPT ![c] = [call EXCEPT !.pc = "done"]]
               /\ x_session' = 0

\* fetch / fetch_single: _init_session, then the first self.session.get
SessBegin(c, kind) ==
    /\ x_calls[c].pc = "idle"
    /\ LET fresh == x_session = 0
           sess == IF fresh THEN x_made + 1 ELSE x_session
           got == GetOn(sess, x_closed)
       IN  /\ x_made' = IF fresh THEN x_made + 1 ELSE x_made
           /\ x_session' = sess
           /\ x_calls' = [x_calls EXCEPT ![c] =
                            [pc |-> IF got = "pending" THEN "pending" ELSE "failed",
                             kind |-> kind, left |-> RequestsOf(kind) - 1,
                             req |-> IF got = "pending" THEN sess ELSE 0,
                             error |-> IF got = "pending" THEN "none" ELSE got]]
           /\ UNCHANGED x_closed
    /\ UNCHANGED outsideSess

\* the pending request ends (well or badly); a fetch call goes on to its next
\* self.session.get, any other call to `finally: await self._close_session()`
SessRespond(c) ==
    /\ x_calls[c].pc \in {"pending", "failed"}
    /\ LET call == x_calls[c]
           got == GetOn(x_session, x_closed)
       IN  IF call.left > 0
           THEN /\ x_calls' = [x_calls EXCEPT ![c] =
                                 [call EXCEPT !.left = call.left - 1,
                                              !.pc = IF got = "pending" THEN "pending"
                                                     ELSE "failed",
                                              !.req = IF got = "pending" THEN x_session
                                                      ELSE 0,
                                              !.error = IF got = "pending" THEN call.error
                                                        ELSE got]]
                /\ UNCHANGED <<x_session, x_closed>>
           ELSE CloseSession(c, [call EXCEPT !.req = 0])
    /\ UNCHANGED <<x_made, outsideSess>>

\* `await self.session.close()` returns: `self.session = None`
SessCloseDone(c) ==
    /\ x_calls[c].pc = "closing"
    /\ x_session' = 0
    /\ x_calls' = [x_calls EXCEPT ![c].pc = "done"]
    /\ UNCHANGED <<x_closed, x_made, outsideSess>>

(***************************************************************************)
(* SearchService: initialize, search, close.  Component objects have ids;  *)
(* a call on the service runs to its end before the next one starts.       *)
(***************************************************************************)
MaxSvcCalls == 4      \* calls made on one SearchService

\* every initialize() creates at most two components
SvcIds == 1..(2 * MaxSvcCalls)

NoSearchImpl == [built |-> FALSE, vectordb |-> 0, embedder |-> 0]

NoSearchRun ==
    [ran |-> FALSE, raised |-> FALSE, vectordb_state |-> "none", embedder_state |-> "none",
     after_close |-> FALSE]

\* the ids not yet given to a component
FreshId(state) == CHOOSE i \in SvcIds : state[i] = "none" /\ \A j \in SvcIds : j < i => state[j] # "none"

\* an initialize() of a component either succeeds or raises
InitOutcomes == {"ok", "raise"}

\* SearchService.initialize: what it leaves of the service's fields and of the
\* components, given how the two component initialize() calls end
Initialized(vectordb, embedder, search_impl, state, db_init, emb_init) ==
    IF search_impl.built
    THEN [vectordb |-> vectordb, embedder |-> embedder, search |-> search_impl,
          state |-> state, raised |-> FALSE]
    ELSE LET db == FreshId(state)
             st1 == [state EXCEPT ![db] = IF db_init = "ok" THEN "ready" ELSE "made"]
         IN  IF db_init = "raise"
             THEN [vectordb |-> db, embedder |-> embedder, search |-> search_impl,
                   state |-> st1, raised |-> TRUE]
             ELSE LET emb == FreshId(st1)
                      st2 == [st1 EXCEPT ![emb] = IF emb_init = "ok" THEN "ready" ELSE "made"]
                  IN  IF emb_init = "raise"
                      THEN [vectordb |-> db, embedder |-> emb, search |-> search_impl,
                            state |-> st2, raised |-> TRUE]
                      ELSE [vectordb |-> db, embedder |-> emb,
                            search |-> [built |-> TRUE, vectordb |-> db, embedder |-> emb],
                            state |-> st2, raised |-> FALSE]

\* LocalEmbedder.embed / OpenAIEmbedder.embed: `await self.initialize()` loads
\* the model or client again when it is not there
EmbedderStateAtUse(state, init) ==
    IF state = "ready" THEN "ready" ELSE IF init = "ok" THEN "ready" ELSE state

\* QdrantVectorDB.search: runs on the client as it is
VectorDbStateAtUse(state) == state

SvcIdle ==
    /\ q_vectordb = 0 /\ q_embedder = 0 /\ q_search = NoSearchImpl
    /\ q_state = [i \in SvcIds |-> "none"]
    /\ q_ops = 0 /\ q_last = NoSearchRun

\* SearchService.initialize()
SvcInitialize ==
    /\ q_ops < MaxSvcCalls
    /\ \E db_init \in InitOutcomes, emb_init \in InitOutcomes :
          LET r == Initialized(q_vectordb, q_embedder, q_search, q_state, db_init, emb_init)
          IN  /\ q_vectordb' = r.vectordb
              /\ q_embedder' = r.embedder
              /\ q_search' = r.search
              /\ q_state' = r.state
    /\ q_ops' = q_ops + 1
    /\ UNCHANGED <<q_last, outsideSvc>>

\* SearchService.search(query): initialize(), then VectorSearch.search embeds
\* the query and searches the vector DB
SvcSearch ==
    /\ q_ops < MaxSvcCalls
    /\ \E db_init \in InitOutcomes, emb_init \in InitOutcomes, lazy_init \in InitOutcomes :
          LET r == Initialized(q_vectordb, q_embedder, q_search, q_state, db_init, emb_init)
              closed_before ==
                  q_search.built /\ (q_state[q_search.vectordb] = "closed"
                                     \/ q_state[q_search.embedder] = "closed")
          IN  /\ q_vectordb' = r.vectordb
              /\ q_embedder' = r.embedder
              /\ q_search' = r.search
              /\ IF r.raised
                 THEN /\ q_state' = r.state
                      /\ q_last' = [NoSearchRun EXCEPT !.raised = TRUE]
                 ELSE LET emb == r.search.embedder
                          db == r.search.vectordb
                          emb_state == EmbedderStateAtUse(r.state[emb], lazy_init)
                      IN  /\ q_state' = [r.state EXCEPT ![emb] = emb_state]
                          /\ q_last' =
                               IF emb_state # "ready"
                               THEN [NoSearchRun EXCEPT !.raised = TRUE]
                               ELSE [ran |-> TRUE, raised |-> FALSE,
                                     vectordb_state |-> VectorDbStateAtUse(r.state[db]),
                                     embedder_state |-> emb_state,
                                     after_close |-> closed_before]
    /\ q_ops' = q_ops + 1
    /\ UNCHANGED outsideSvc

\* SearchService.close()
SvcClose ==
    /\ q_ops < MaxSvcCalls
    /\ q_state' = [i \in SvcIds |->
                     IF i # 0 /\ (i = q_vectordb \/ i = q_embedder) THEN "closed"
                     ELSE q_state[i]]
    /\ q_ops' = q_ops + 1
    /\ UNCHANGED <<q_vectordb, q_embedder, q_search, q_last, outsideSvc>>

(***************************************************************************)
(* The crawl specification                                                 *)
(***************************************************************************)
CallIdle ==
    /\ k_pc = "idle"
    /\ cfg = NoCfg
    /\ mode = "none"
    /\ to_visit = <<>>
    /\ discovered = {}
    /\ w_req = <<>>
    /\ queue = <<>>
    /\ visited = {}
    /\ sitemap_urls = {}
    /\ urls_to_fetch = <<>>
    /\ tasks = <<>>
    /\ sem = 0
    /\ documents = <<>>
    /\ raised = FALSE
    /\ calls = 0
    /\ h_requested = {}
    /\ h_depth = [p \in Pages |-> -1]
    /\ h_prev = NoPrev
    /\ h_clean = TRUE

ObjFresh ==
    /\ robots_cache = [h \in Hosts |-> "absent"]
    /\ visited_urls = {}
    /\ session = "none"

CrawlIdle ==
    /\ site_sitemap = {}
    /\ site_robots = {}
    /\ site_links = [p \in Pages |-> {}]
    /\ site_seen = {}
    /\ crawler = "web"
    /\ concurrent_requests = 1
    /\ respect_robots = TRUE
    /\ ObjFresh
    /\ CallIdle

\* a site, and a crawler as its constructor leaves it
CrawlInit ==
    /\ site_sitemap \in SUBSET Pages
    /\ site_robots \in SUBSET Pages
    /\ site_links = [p \in Pages |-> {}]
    /\ site_seen = {}
    /\ crawler \in {"web", "c4"}
    /\ concurrent_requests \in 1..MaxConcurrent
    /\ respect_robots \in (IF crawler = "c4" THEN BOOLEAN ELSE {TRUE})
    /\ ObjFresh
    /\ CallIdle

InitCrawl == CrawlInit /\ PackIdle /\ CacheIdle /\ UrlIdle /\ ChunkIdle /\ RerankIdle /\ SourceIdle /\ RelIdle /\ SessIdle /\ SvcIdle

NextCrawl ==
    \/ WebFetch \/ WebFetchSitemap \/ WebCrawlPop \/ WebCrawlResponse
    \/ WebCrawlReturn \/ WebGatherDone
    \/ C4Fetch \/ C4LoadRobots \/ C4Discover \/ C4BatchStart \/ C4BatchProcess
    \/ C4BfsReturn \/ C4GatherDone
    \/ \E i \in 1..Len(tasks) : TaskStart(i) \/ TaskFinish(i)

SpecCrawl == InitCrawl /\ [][NextCrawl]_vars

(***************************************************************************)
(* The cache specification                                                 *)
(***************************************************************************)
TextLists == UNION { [1..n -> Texts] : n \in 0..MaxBatch }
VectorLists == UNION { [1..n -> Vectors] : n \in 0..MaxBatch }

InitCache == CacheIdle /\ PackIdle /\ CrawlIdle /\ UrlIdle /\ ChunkIdle /\ RerankIdle /\ SourceIdle /\ RelIdle /\ SessIdle /\ SvcIdle

NextCache ==
    \/ \E t \in Texts, m \in Models : CacheGet(t, m)
    \/ \E t \in Texts, m \in Models, v \in Vectors : CacheSet(t, m, v)
    \/ \E ts \in TextLists, m \in Models : CacheGetMany(ts, m)
    \/ \E ts \in TextLists, m \in Models, vs \in VectorLists : CacheSetMany(ts, m, vs)
    \/ Tick

SpecCache == InitCache /\ [][NextCache]_vars

\* C9: a get for a pair that was set, within the TTL of its last set and with
\* the store never having failed, returns exactly the vector last set for it
C9_GetReturnsSet ==
    (e_last.op = "get" /\ e_last.due) => e_last.hit /\ e_last.value = e_last.expected

\* C10: no cache call raises, whatever fails in the store, connection setup
\* included
C10_NeverRaises == ~e_last.raised

(***************************************************************************)
(* URL normalisation: specification and claims                             *)
(***************************************************************************)
InitUrl == UrlInit /\ PackIdle /\ CrawlIdle /\ CacheIdle /\ ChunkIdle /\ RerankIdle /\ SourceIdle /\ RelIdle /\ SessIdle /\ SvcIdle

NextUrl == NormalizeOnce \/ NormalizeAgain

SpecUrl == InitUrl /\ [][NextUrl]_vars

\* C11: normalising a normalised URL changes nothing:
\* _normalize_url(_normalize_url(U)) = _normalize_url(U)
C11_Idempotent == u_pc = "twice" => u_twice = u_once

(***************************************************************************)
(* Chunkers: specification and claims                                      *)
(***************************************************************************)
InitChunk == (FixedInit \/ SemanticInit) /\ PackIdle /\ CrawlIdle /\ CacheIdle /\ UrlIdle /\ RerankIdle /\ SourceIdle /\ RelIdle /\ SessIdle /\ SvcIdle

NextChunk == FixedConstruct \/ FixedChunk \/ SemanticConstruct \/ SemanticChunk

SpecChunk == InitChunk /\ [][NextChunk]_vars

FixedDone == c_pc = "done" /\ c_kind = "fixed"

\* C12: every chunk a FixedSizeChunker emits has a content of at most
\* chunk_size characters
C12_ChunkSize ==
    FixedDone => \A i \in 1..Len(c_chunks) : Len(c_chunks[i].content) <= c_size

\* a window cut back to its last newline, and a full window
C12_Witness ==
    /\ FixedDone /\ c_size = 5
    /\ \E i \in 1..Len(c_chunks) :
          /\ c_chunks[i].end_char < Len(c_text)
          /\ c_chunks[i].end_char - c_chunks[i].start_char < c_size
    /\ \E i \in 1..Len(c_chunks) : Len(c_chunks[i].content) = 5

\* C13: a FixedSizeChunker built with chunk_size S and chunk_overlap O,
\* 0 <= O < S, emits consecutive chunks that overlap by at most O characters
C13_OverlapBound ==
    (FixedDone /\ c_args.size > c_args.overlap) =>
        \A i \in 1..(Len(c_chunks) - 1) :
            c_chunks[i].end_char - c_chunks[i + 1].start_char <= c_args.overlap

\* first and last character of the text that is not whitespace (positions)
Solid == { k \in 0..(Len(c_text) - 1) : c_text[k + 1] \notin Whitespace }

\* C14: the spans of the emitted chunks cover every character of the text
\* from its first to its last non-whitespace character
C14_Coverage ==
    FixedDone =>
        \A k \in 0..(Len(c_text) - 1) :
            ((\E a \in Solid : a <= k) /\ (\E b \in Solid : b >= k)) =>
                \E i \in 1..Len(c_chunks) :
                    c_chunks[i].start_char <= k /\ k < c_chunks[i].end_char

IsExample200 ==
    /\ FixedDone /\ c_text = Repeat("a", 200)
    /\ c_args = [size |-> 50, overlap |-> 10]

\* C15 as stated: 200 characters, chunk_size 50, chunk_overlap 10 give five
\* chunks, indices 0..4, each of length 50, consecutive ones overlapping by 10
C15_FiveOfFifty ==
    IsExample200 =>
        /\ Len(c_chunks) = 5
        /\ \A i \in 1..5 : c_chunks[i].index = i - 1 /\ Len(c_chunks[i].content) = 50
        /\ \A i \in 1..4 : c_chunks[i].end_char = c_chunks[i + 1].start_char + 10

\* C15: 200 characters, chunk_size 50, chunk_overlap 10 give five chunks,
\* indices 0..4, the first four of length 50 and the last of length 40,
\* consecutive ones overlapping by 10
C15_FourOfFiftyAndForty ==
    IsExample200 =>
        /\ Len(c_chunks) = 5
        /\ \A i \in 1..5 : c_chunks[i].index = i - 1
        /\ \A i \in 1..4 : Len(c_chunks[i].content) = 50
        /\ Len(c_chunks[5].content) = 40
        /\ \A i \in 1..4 : c_chunks[i].end_char = c_chunks[i + 1].start_char + 10

C15_Witness == IsExample200 /\ Len(c_chunks) = 5 /\ c_chunks[5].end_char = 200

\* C16: every chunk a SemanticChunker emits has a content of at most
\* max_chunk_size characters
C16_SemanticSize ==
    (c_pc = "done" /\ c_kind = "semantic") =>
        \A i \in 1..Len(c_chunks) : Len(c_chunks[i].content) <= c_size

\* C17: the k-th chunk of either chunker has index k, counted from 0, and
\* start_char grows strictly with the index
C17_IndicesInOrder ==
    c_pc = "done" =>
        /\ \A i \in 1..Len(c_chunks) : c_chunks[i].index = i - 1
        /\ \A i \in 1..(Len(c_chunks) - 1) :
              c_chunks[i].start_char < c_chunks[i + 1].start_char

\* a whitespace-only window was skipped between two emitted chunks
C17_Witness ==
    /\ FixedDone
    /\ \E i \in 1..(Len(c_chunks) - 1) :
          c_chunks[i + 1].start_char > c_chunks[i].end_char

(***************************************************************************)
(* Reranker: specification and claims                                      *)
(***************************************************************************)
InitRerank == RerankInit /\ PackIdle /\ CrawlIdle /\ CacheIdle /\ UrlIdle /\ ChunkIdle /\ SourceIdle /\ RelIdle /\ SessIdle /\ SvcIdle

NextRerank == Rerank

SpecRerank == InitRerank /\ [][NextRerank]_vars

AllMetricsEqual ==
    \A i, j \in 1..Len(r_results) :
        UsedMetrics(r_results[i], r_use_stored) = UsedMetrics(r_results[j], r_use_stored)

\* C18: when every result has the same per-metric scores, rerank returns the
\* results by descending vector_score, equal vector_scores in input order
C18_ByVectorScore ==
    (r_pc = "done" /\ AllMetricsEqual) =>
        \A i, j \in 1..Len(r_ranked) :
            i < j => \/ r_ranked[i].vector_score > r_ranked[j].vector_score
                     \/ /\ r_ranked[i].vector_score = r_ranked[j].vector_score
                        /\ r_ranked[i].id < r_ranked[j].id

(***************************************************************************)
(* Sources: specification and claims                                       *)
(***************************************************************************)
InitSource ==
    SourceInit /\ PackIdle /\ CrawlIdle /\ CacheIdle /\ UrlIdle /\ ChunkIdle /\ RerankIdle /\ RelIdle /\ SessIdle /\ SvcIdle

NextSource ==
    \/ \E c \in Callers, name \in Names, type \in SourceTypes : CreateBegin(c, name, type)
    \/ \E c \in Callers : CreateCheck(c)
    \/ \E c \in Callers : CreateFlush(c)
    \/ \E id \in 1..MaxSourceCalls, name \in Names \cup {""}, status \in UpdateStatuses :
          UpdateSource(id, name, status)

SpecSource == InitSource /\ [][NextSource]_vars

\* C19: every stored source has a status among active, paused, error
C19_ValidStatus == \A r \in db_sources : r.status \in ValidSourceStatus

\* C20: a create_source or update_source call that would give two sources the
\* same name ends with the typed error SOURCE_EXISTS and changes nothing
C20_TypedDuplicateError ==
    s_last.dup => s_last.error = "SOURCE_EXISTS" /\ ~s_last.changed

(***************************************************************************)
(* Crawlers: claims                                                        *)
(***************************************************************************)
Held == Cardinality({ i \in 1..Len(tasks) : tasks[i].st = "inflight" })

C4_RobotsRespected ==
    (crawler = "c4" /\ cfg.respect_robots) => h_requested \cap site_robots = {}

\* C5: if sitemap discovery yields at least one URL, the crawl requests at most
\* max_pages pages, every one a sitemap entry, and no BFS discovery is made
C5_SitemapOnly ==
    sitemap_urls # {} =>
        /\ mode = "sitemap"
        /\ to_visit = <<>> /\ discovered = {} /\ queue = <<>> /\ visited = {}
        /\ Cardinality(h_requested) <= cfg.max_pages
        /\ h_requested \subseteq site_sitemap

\* scenario 4: three sitemap URLs, max_pages = 2, two documents
C5_Witness ==
    /\ k_pc = "done"
    /\ Cardinality(site_sitemap) = 3
    /\ cfg.max_pages = 2
    /\ Len(documents) = 2

DocDepth(doc) == IF crawler = "web" THEN h_depth[doc.url] ELSE doc.depth

\* C6: in BFS mode no returned document's URL was discovered at a depth
\* greater than max_depth
C6_DepthBound ==
    (k_pc = "done" /\ mode = "bfs") =>
        \A i \in 1..Len(documents) : DocDepth(documents[i]) <= cfg.max_depth

\* C7: in BFS mode the crawl never holds more than max_pages documents
\* (WebCrawler: never more than max_pages discovered URLs either)
C7_MaxPages ==
    mode = "bfs" =>
        /\ Len(documents) <= cfg.max_pages
        /\ Len(urls_to_fetch) <= cfg.max_pages
        /\ Cardinality(discovered) <= cfg.max_pages

\* the BFS stopped on max_pages with URLs still queued
C7_Witness ==
    /\ crawler = "c4" /\ k_pc = "done" /\ mode = "bfs"
    /\ Len(documents) = cfg.max_pages
    /\ queue # <<>>

\* the documents of the URLs whose fetch went well, in input order
RECURSIVE OkDocs(_)
OkDocs(ts) ==
    IF ts = <<>> THEN <<>>
    ELSE (IF Head(ts).outcome = "ok" THEN <<Head(ts).url>> ELSE <<>>) \o OkDocs(Tail(ts))

\* C8: no batch fetch raises, and a finished batch fetch (_fetch_urls,
\* _fetch_urls_batch) returns exactly the documents of the URLs whose fetch
\* neither raised nor reported failure, in input order
C8_FailuresSkipped ==
    /\ ~raised
    /\ (k_pc = "done" /\ (crawler = "web" \/ mode = "sitemap")) =>
          /\ [i \in 1..Len(tasks) |-> tasks[i].url] = urls_to_fetch
          /\ [i \in 1..Len(documents) |-> documents[i].url] = OkDocs(tasks)

C8_Witness ==
    /\ k_pc = "done" /\ crawler = "c4" /\ mode = "sitemap"
    /\ Len(tasks) = 3
    /\ tasks[1].outcome = "raise"
    /\ tasks[2].outcome = "ok"
    /\ tasks[3].outcome = "fail"
    /\ Len(documents) = 1

(***************************************************************************)
(* Token packing: specification and claims                                 *)
(***************************************************************************)
SumTokens(results) == SumSeq([i \in 1..Len(results) |-> count_tokens(results[i].content)])

InitPack == PackInit /\ CrawlIdle /\ CacheIdle /\ UrlIdle /\ ChunkIdle /\ RerankIdle /\ SourceIdle /\ RelIdle /\ SessIdle /\ SvcIdle
NextPack == Pack
SpecPack == InitPack /\ [][NextPack]_vars

\* C1: the estimated token counts of the returned contents (the truncated one
\* included) sum to at most max_tokens
C1_WithinBudget ==
    p_pc = "done" => SumTokens(p_limited) <= p_max_tokens

IsScenario7 == p_results \in ScenarioLists /\ p_max_tokens = 450

\* C2 (as stated): scenario 7 returns exactly three results, the first two
\* unchanged and a third one marked truncated, within 450 tokens
C2_ThreeResults ==
    (p_pc = "done" /\ IsScenario7) =>
        /\ Len(p_limited) = 3
        /\ SubSeq(p_limited, 1, 2) = SubSeq(p_results, 1, 2)
        /\ p_limited[3].truncated
        /\ SumTokens(p_limited) <= 450

\* C2 (amended): scenario 7 returns exactly the first two results, unchanged,
\* 400 tokens in all: the 50 tokens left are not more than 50, so no truncated
\* third result is emitted
C2_TwoResults ==
    (p_pc = "done" /\ IsScenario7) =>
        /\ p_limited = SubSeq(p_results, 1, 2)
        /\ SumTokens(p_limited) = 400

C2_Witness == p_pc = "done" /\ IsScenario7 /\ Len(p_limited) = 2

\* the number of leading results that fit the budget one after the other
FittingPrefix ==
    LET fits == { k \in 0..Len(p_given) : SumTokens(SubSeq(p_given, 1, k)) <= p_max_tokens }
    IN  CHOOSE k \in fits : \A j \in fits : k >= j

\* text is made of the first sentences of whole
IsCut(text, whole) == Len(text) <= Len(whole) /\ text = SubSeq(whole, 1, Len(text))

\* C22: the output is the first k input results unchanged, k the number of
\* leading results that fit, followed by one truncated copy of result k+1,
\* marked truncated, exactly when result k+1 exists and more than 50 tokens
\* remain; nothing after it is emitted, and the input is left as it was
C22_PrefixThenPartial ==
    p_pc = "done" =>
        LET k == FittingPrefix
            remaining == p_max_tokens - SumTokens(SubSeq(p_given, 1, k))
        IN  /\ p_results = p_given
            /\ Len(p_limited) >= k
            /\ SubSeq(p_limited, 1, k) = SubSeq(p_given, 1, k)
            /\ IF k < Len(p_given) /\ remaining > MinPartialTokens
               THEN /\ Len(p_limited) = k + 1
                    /\ p_limited[k + 1].truncated
                    /\ p_limited[k + 1].id = p_given[k + 1].id
                    /\ IsCut(p_limited[k + 1].content, p_given[k + 1].content)
               ELSE Len(p_limited) = k

\* a truncated copy was emitted and the last input result, which would still
\* fit the budget, was not
C22_Witness ==
    /\ p_pc = "done"
    /\ Len(p_limited) >= 1 /\ p_limited[Len(p_limited)].truncated
    /\ Len(p_limited) < Len(p_given)
    /\ SumTokens(p_limited) + count_tokens(p_given[Len(p_given)].content) <= p_max_tokens

\* C21: when loading a host's robots.txt raised, the entry cached for the host
\* lets every URL of the host through _can_fetch
C21_FailOpen ==
    \A h \in Hosts :
        (crawler = "c4" /\ robots_cache[h] = "unread") =>
            \A url \in Pages : netloc(url) = h => CanFetch(url)


(***************************************************************************)
(* Crawl4AICrawler._crawl_bfs: termination                                 *)
(***************************************************************************)
\* a Crawl4AICrawler on a site without sitemap: every fetch goes to _crawl_bfs
InitBfs == InitCrawl /\ crawler = "c4" /\ site_sitemap = {}

NextBfs ==
    \/ C4Fetch \/ C4LoadRobots \/ C4Discover \/ C4BatchStart \/ C4BatchProcess
    \/ C4BfsReturn
    \/ \E i \in 1..Len(tasks) : TaskStart(i) \/ TaskFinish(i)

\* the event loop runs whatever is ready, and every page request ends
SpecBfs == InitBfs /\ [][NextBfs]_vars /\ WF_vars(NextBfs)

\* the turns of the outer loop: the batch is built, then (unless empty) awaited
\* and processed
BfsTurnStarts == C4BatchStart

RECURSIVE FixedStartsUnguarded(_, _, _, _, _, _)
FixedStartsUnguarded(text, chunk_size, chunk_overlap, start, turns, seen) ==
    IF ~(start < Len(text)) THEN [starts |-> seen, exited |-> TRUE]
    ELSE IF turns = 0 THEN [starts |-> seen, exited |-> FALSE]
    ELSE LET end == WindowEnd(text, start, chunk_size)
         IN  IF end >= Len(text) THEN [starts |-> Append(seen, start), exited |-> TRUE]
             ELSE FixedStartsUnguarded(text, chunk_size, chunk_overlap,
                                       end - chunk_overlap, turns - 1,
                                       Append(seen, start))

\* the values `start` takes at the top of the while loop, for as many turns as
\* `turns` allows, and whether the loop has ended by then
RECURSIVE FixedStarts(_, _, _, _, _, _)
FixedStarts(text, chunk_size, chunk_overlap, start, turns, seen) ==
    IF ~(start < Len(text)) THEN [starts |-> seen, exited |-> TRUE]
    ELSE IF turns = 0 THEN [starts |-> seen, exited |-> FALSE]
    ELSE LET end == WindowEnd(text, start, chunk_size)
         IN  IF end >= Len(text) THEN [starts |-> Append(seen, start), exited |-> TRUE]
             ELSE FixedStarts(text, chunk_size, chunk_overlap,
                              NextStart(start, end, chunk_overlap), turns - 1,
                              Append(seen, start))

\* C24: the while loop of a FixedSizeChunker (chunk_overlap < chunk_size) ends
\* within len(text) turns, start grows by at least 1 from each turn to the
\* next, and every emitted chunk starts at one of these positions
C24_ForwardProgress ==
    FixedDone =>
        LET run == FixedStarts(c_text, c_size, c_overlap, 0, Len(c_text), <<>>)
            starts == run.starts
        IN  /\ run.exited
            /\ \A i \in 1..(Len(starts) - 1) : starts[i + 1] >= starts[i] + 1
            /\ \A i \in 1..Len(c_chunks) :
                  \E j \in 1..Len(starts) : starts[j] = c_chunks[i].start_char

\* a window cut back to a newline so that it is no longer than the overlap:
\* the guard moves start by one
C24_Witness ==
    /\ FixedDone
    /\ \E i \in 1..Len(c_chunks) :
          /\ c_chunks[i].end_char < Len(c_text)
          /\ c_chunks[i].end_char - c_chunks[i].start_char < c_size
          /\ c_chunks[i].end_char - c_chunks[i].start_char <= c_overlap


\* C25: for every chunk a SemanticChunker emits, the text between start_char
\* and end_char is the chunk's content
C25_SpanIsContent ==
    (c_pc = "done" /\ c_kind = "semantic") =>
        \A i \in 1..Len(c_chunks) :
            Slice(c_text, c_chunks[i].start_char, c_chunks[i].end_char)
                = c_chunks[i].content


\* C26: with use_stored_scores on, a result whose metadata map holds none of
\* the precomputed scores gets the five scores computed from its content and
\* the query
C26_ComputedWhenNotStored ==
    (r_pc = "done" /\ r_use_stored) =>
        \A i \in 1..Len(r_results) :
            (r_results[i].has_metadata /\ DOMAIN r_results[i].stored = {}) =>
                \A j \in 1..Len(r_ranked) :
                    r_ranked[j].id = r_results[i].id =>
                        r_ranked[j].metrics = r_results[i].metrics


(***************************************************************************)
(* Relevance score: specification and claims                               *)
(***************************************************************************)
InitRel == RelInit /\ PackIdle /\ CrawlIdle /\ CacheIdle /\ UrlIdle /\ ChunkIdle /\ RerankIdle /\ SourceIdle /\ SessIdle /\ SvcIdle
NextRel == ComputeRelevance
SpecRel == InitRel /\ [][NextRel]_vars

RelQ == WordSet(Lower(v_query))
RelC == WordSet(Lower(v_content))

\* the phrase and term-frequency parts of the score
RelOtherTerms ==
    PhraseTerm(Lower(v_query), Lower(v_content))
    + FrequencyTerm(SplitWords(Lower(v_query), <<>>), Lower(v_content))

\* C27 (as stated): the word-set term is 0.3 * |Q n C| / |Q u C|, and the
\* score is capped at 1.0
C27_JaccardTerm ==
    v_pc = "done" =>
        /\ v_score = Min(RelOtherTerms + JaccardTerm(RelQ, RelC), 1000)
        /\ v_score <= 1000

\* C27 (amended): the word-set term is 0.3 * |Q n C| / |Q|, the share of the
\* query's words found in the content (nothing for a query without words), and
\* the score is capped at 1.0
C27_QueryCoverageTerm ==
    v_pc = "done" =>
        /\ v_score = Min(RelOtherTerms
                         + (IF RelQ = {} THEN 0
                            ELSE (300 * Cardinality(RelQ \cap RelC)) \div Cardinality(RelQ)),
                         1000)
        /\ v_score <= 1000
        /\ (RelQ # {} /\ RelC \subseteq RelQ /\ RelQ \subseteq RelC)
              => v_score = Min(RelOtherTerms + 300, 1000)

\* a query whose words are all in a content that has other words too
C27_Witness ==
    /\ v_pc = "done"
    /\ RelQ # {} /\ RelQ \subseteq RelC /\ RelC # RelQ
    /\ v_score = RelOtherTerms + 300


(***************************************************************************)
(* WebCrawler: successive fetch() calls on one instance                    *)
(***************************************************************************)
\* a WebCrawler and a site without sitemap (WebCrawler reads no robots.txt)
InitRefetch == InitCrawl /\ crawler = "web" /\ site_sitemap = {} /\ site_robots = {}

NextRefetch ==
    \/ WebFetch \/ WebFetchAgain \/ WebFetchSitemap \/ WebCrawlPop \/ WebCrawlResponse
    \/ WebCrawlReturn \/ WebGatherDone
    \/ \E i \in 1..Len(tasks) : TaskStart(i) \/ TaskFinish(i)

SpecRefetch == InitRefetch /\ [][NextRefetch]_vars

\* C28: the second of two fetch() calls on one WebCrawler, made with the same
\* config against a site without sitemap whose every request was answered in
\* both calls, returns the same set of document URLs as the first
C28_SameUrlsAgain ==
    (/\ crawler = "web" /\ k_pc = "done" /\ h_prev.made
     /\ site_sitemap = {}
     /\ h_prev.cfg = cfg
     /\ h_prev.clean /\ h_clean /\ ~h_prev.raised /\ ~raised)
        => DocUrls(documents) = h_prev.urls


(***************************************************************************)
(* WebCrawler session: specification and claims                            *)
(***************************************************************************)
InitSess == SessIdle /\ PackIdle /\ CrawlIdle /\ CacheIdle /\ UrlIdle /\ ChunkIdle /\ RerankIdle /\ SourceIdle /\ RelIdle /\ SvcIdle

NextSess ==
    \/ \E c \in SessCallers, kind \in CallKinds : SessBegin(c, kind)
    \/ \E c \in SessCallers : SessRespond(c)
    \/ \E c \in SessCallers : SessCloseDone(c)

SpecSess == InitSess /\ [][NextSess]_vars

\* C29: no pending request of a call is on a session that was closed, and no
\* call found self.session closed or None when it went to make a request
C29_SessionStaysOpen ==
    \A c \in SessCallers :
        /\ x_calls[c].pc = "pending" => x_calls[c].req \notin x_closed
        /\ x_calls[c].error = "none"


(***************************************************************************)
(* SearchService: specification and claims                                 *)
(***************************************************************************)
InitSvc == SvcIdle /\ PackIdle /\ CrawlIdle /\ CacheIdle /\ UrlIdle /\ ChunkIdle /\ RerankIdle /\ SourceIdle /\ RelIdle /\ SessIdle

NextSvc == SvcInitialize \/ SvcSearch \/ SvcClose

SpecSvc == InitSvc /\ [][NextSvc]_vars

\* C30: a search that ran used a vector DB client and an embedder that were
\* initialized and not closed since
C30_SearchAfterClose ==
    q_last.ran => q_last.vectordb_state = "ready" /\ q_last.embedder_state = "ready"

====
